---- MODULE Spec2Model ----
(***************************************************************************)
(* A state-machine model of RawParser.c: the grammar-driven, scannerless,  *)
(* back-tracking recursive-descent parser (parse_nt, parse_rule,           *)
(* parse_seq, parse_element), its text buffer, its reference-counted       *)
(* results, the brute-force cache and the expectation tracker.             *)
(*                                                                         *)
(* The C call stack is the variable `stack`: one frame per active call of  *)
(* a parse function, holding its parameters, its locals and the label at   *)
(* which it continues.  A pointer is the index of what it points at        *)
(* (an element, a rule, a payload, a call-stack node), 0 is NULL, and a    *)
(* NULL function pointer is the string "NULL".                             *)
(***************************************************************************)
EXTENDS Integers, Sequences, FiniteSets, TLC

(***************************************************************************)
(* Bounds of the model.                                                    *)
(***************************************************************************)
\* Longest input text that is parsed.
MaxLen == 3
\* Number of times the client callbacks may return false on their own
\* account in one parse (a veto by a callback the grammar does not fix).
MaxVeto == 1

(***************************************************************************)
(* Bytes.  The input alphabet is the letter 'a' (97) and the letter 'b'    *)
(* (98); a C string ends in the byte 0, which is what *info reads at the   *)
(* end of the buffer.                                                      *)
(***************************************************************************)
chr == [a |-> 97, b |-> 98, nul |-> 0, tab |-> 9, nl |-> 10,
        minus |-> 45, d0 |-> 48, d1 |-> 49, d7 |-> 55, d9 |-> 57,
        A |-> 65, F |-> 70, f |-> 102, x |-> 120, U |-> 85, L |-> 76,
        space |-> 32, quote |-> 34, apostrophe |-> 39, backslash |-> 92,
        n |-> 110, r |-> 114, cr |-> 13]

InputChars == {chr.a, chr.b}

RECURSIVE SeqsUpTo(_, _)
SeqsUpTo(S, n) ==
    IF n = 0 THEN {<< >>}
    ELSE LET shorter == SeqsUpTo(S, n - 1)
         IN  shorter \cup {Append(s, c) : s \in {t \in shorter : Len(t) = n - 1}, c \in S}

Inputs == SeqsUpTo(InputChars, MaxLen)

(***************************************************************************)
(* Text position and text buffer (struct text_pos, text_buffer_t).         *)
(***************************************************************************)
text_pos(p, l, c) == [pos |-> p, cur_line |-> l, cur_column |-> c]

\* text_buffer_assign_string: the buffer is the model variable `input`;
\* `info` is kept as the offset of the byte it points at.
text_buffer_assign_string(text) ==
    [tab_size |-> 4, buffer_len |-> Len(text), info |-> 0, pos |-> text_pos(0, 1, 1)]

\* *text_buffer->info: the byte under the cursor, the terminating 0 at the end.
CharAt(text, off) == IF off < Len(text) THEN text[off + 1] ELSE chr.nul

\* A tab moves the column by tab_size, wherever it stands.
text_buffer_next_flat(tb, text) ==
    IF tb.pos.pos < tb.buffer_len
    THEN LET c == CharAt(text, tb.info)
             np == IF c = chr.tab
                   THEN [tb.pos EXCEPT !.cur_column = @ + tb.tab_size]
                   ELSE IF c = chr.nl
                   THEN [tb.pos EXCEPT !.cur_line = @ + 1, !.cur_column = 1]
                   ELSE [tb.pos EXCEPT !.cur_column = @ + 1]
         IN  [tb EXCEPT !.pos = [np EXCEPT !.pos = @ + 1], !.info = @ + 1]
    ELSE tb

text_buffer_next(tb, text) ==
    IF tb.pos.pos < tb.buffer_len
    THEN LET c == CharAt(text, tb.info)
             np == IF c = chr.tab
                   THEN [tb.pos EXCEPT !.cur_column =
                            @ + tb.tab_size - ((@ - 1) % tb.tab_size)]
                   ELSE IF c = chr.nl
                   THEN [tb.pos EXCEPT !.cur_line = @ + 1, !.cur_column = 1]
                   ELSE [tb.pos EXCEPT !.cur_column = @ + 1]
         IN  [tb EXCEPT !.pos = [np EXCEPT !.pos = @ + 1], !.info = @ + 1]
    ELSE tb

text_buffer_end(tb) == tb.pos.pos >= tb.buffer_len

text_buffer_set_pos_skip(tb, tp) == tb

\* Only the offset and the cursor are set.
text_buffer_set_pos_offset(tb, tp) ==
    IF tb.pos.pos = tp.pos THEN tb
    ELSE [tb EXCEPT !.pos.pos = tp.pos, !.info = tp.pos]

text_buffer_set_pos(tb, tp) ==
    IF tb.pos.pos = tp.pos THEN tb
    ELSE [tb EXCEPT !.pos = tp, !.info = tp.pos]

(***************************************************************************)
(* Grammar (struct non_terminal, struct rules, struct element).            *)
(***************************************************************************)
element_init(kind) ==
    [kind |-> kind, next |-> 0, optional |-> FALSE, sequence |-> FALSE,
     back_tracking |-> FALSE, avoid |-> FALSE, chain_rule |-> 0,
     add_char_function |-> "NULL", condition |-> "NULL",
     condition_argument |-> << >>, add_function |-> "NULL",
     add_skip_function |-> "NULL", begin_seq_function |-> "NULL",
     add_seq_function |-> "NULL", set_pos |-> "NULL",
     non_terminal |-> "NULL", rules |-> 0, ch |-> 0, char_set |-> {},
     terminal_function |-> "NULL"]

new_rule == [elements |-> 0, end_function |-> "NULL", end_function_data |-> "NULL",
             rec_start_function |-> "NULL", next |-> 0]

\* The grammar macros: each takes the element it modifies, or the pointer
\* to the next element of the rule.
NTF(n, f, nxt) == [element_init("rk_nt") EXCEPT !.non_terminal = n, !.add_function = f, !.next = nxt]
END(nxt) == [element_init("rk_end") EXCEPT !.next = nxt]
CHAR(c, nxt) == [element_init("rk_char") EXCEPT !.ch = c, !.next = nxt]
CHARF(c, f, nxt) == [CHAR(c, nxt) EXCEPT !.add_char_function = f]
CHARSET(f, set, nxt) == [element_init("rk_charset") EXCEPT !.char_set = set, !.add_char_function = f, !.next = nxt]
\* An element of kind rk_term: info.terminal_function = f.
TERMINAL(f, nxt) == [element_init("rk_term") EXCEPT !.terminal_function = f, !.next = nxt]
GROUPING(r, nxt) == [element_init("rk_grouping") EXCEPT !.rules = r, !.next = nxt]
SEQ(e, s, f) == [e EXCEPT !.sequence = TRUE, !.begin_seq_function = s, !.add_seq_function = f]
CHAIN(e, c) == [e EXCEPT !.chain_rule = c]
OPT(e, f) == [e EXCEPT !.optional = TRUE, !.add_skip_function = f]
BACK_TRACKING(e) == [e EXCEPT !.back_tracking = TRUE]
AVOID(e) == [e EXCEPT !.avoid = TRUE]
SET_PS(e, f) == [e EXCEPT !.set_pos = f]
COND(e, f, arg) == [e EXCEPT !.condition = f, !.condition_argument = arg]
RULE(e, nxt) == [new_rule EXCEPT !.elements = e, !.next = nxt]
REC_RULE(f, e, nxt) == [new_rule EXCEPT !.rec_start_function = f, !.elements = e, !.next = nxt]
END_FUNCTION(r, f, d) == [r EXCEPT !.end_function = f, !.end_function_data = d]

\* What the grammar functions (white_space_grammar, ident_grammar,
\* int_grammar, string_grammar and those of the model's own small grammars)
\* build: the elements by element pointer, the rules by rule pointer, and
\* the dictionary of non-terminals, name -> (normal, recursive).
Grammar ==
    [elements |->
        <<
            \* white_space: ( [a] | 'b' [ab] SEQ OPT AVOID 'b' ) SEQ OPT
            (* 1 *) OPT(SEQ(GROUPING(2, 0), "NULL", "NULL"), "NULL"),
            (* 2 *) CHARSET("NULL", {chr.a}, 0),
            (* 3 *) CHAR(chr.b, 4),
            (* 4 *) AVOID(OPT(SEQ(CHARSET("NULL", {chr.a, chr.b}, 5), "NULL", "NULL"), "NULL")),
            (* 5 *) CHAR(chr.b, 0),
            \* ident: [a] ([a] SEQ OPT)
            (* 6 *) SET_PS(CHARSET("ident_add_char", {chr.a}, 7), "ident_set_pos"),
            (* 7 *) OPT(SEQ(CHARSET("ident_add_char", {chr.a}, 0), "pass_to_sequence", "use_sequence_result"), "NULL"),
            \* sum: prim | sum 'b' prim | sum 'b' (element 40)
            (* 8 *) NTF("prim", "take_child", 0),
            (* 9 *) CHAR(chr.b, 10),
            (* 10 *) NTF("prim", "add_child", 0),
            \* prim: ident (not a keyword)
            (* 11 *) COND(NTF("ident", "add_child", 0), "not_a_keyword", << >>),
            \* list: prim SEQ CHAIN 'b' OPT
            (* 12 *) OPT(CHAIN(SEQ(NTF("prim", "add_child", 0), "NULL", "add_seq_as_list"), 13), "NULL"),
            (* 13 *) CHAR(chr.b, 0),
            \* bt: [ab] SEQ BACK_TRACKING 'b' <eof>
            (* 14 *) BACK_TRACKING(SEQ(CHARSET("ident_add_char", {chr.a, chr.b}, 15), "NULL", "use_sequence_result")),
            (* 15 *) CHAR(chr.b, 16),
            (* 16 *) END(0),
            \* bta: [ab] SEQ CHAIN 'a' BACK_TRACKING AVOID 'b' <eof>
            (* 17 *) AVOID(BACK_TRACKING(CHAIN(SEQ(CHARSET("NULL", {chr.a, chr.b}, 19), "NULL", "NULL"), 18))),
            (* 18 *) CHAR(chr.a, 0),
            (* 19 *) CHAR(chr.b, 20),
            (* 20 *) END(0),
            \* loop: 'a' | loop ('b' OPT)
            (* 21 *) CHAR(chr.a, 0),
            (* 22 *) OPT(CHAR(chr.b, 0), "NULL"),
            \* twice: ident 'b' 'b' | ident 'b'
            (* 23 *) NTF("ident", "take_child", 24),
            (* 24 *) CHAR(chr.b, 25),
            (* 25 *) CHAR(chr.b, 0),
            (* 26 *) NTF("ident", "take_child", 27),
            (* 27 *) CHAR(chr.b, 0),
            \* opt: 'b' OPT(take_prev)  ident OPT
            (* 28 *) OPT(CHAR(chr.b, 29), "take_prev"),
            (* 29 *) OPT(NTF("ident", "add_child", 0), "NULL"),
            \* word: [a], the result is the ident_data that ident_add_char made
            (* 30 *) CHARSET("ident_add_char", {chr.a}, 0),
            \* alias: word 'b' 'b' | word, the first 'b' is added to the word
            (* 31 *) NTF("word", "take_child", 32),
            (* 32 *) CHARF(chr.b, "ident_add_char", 33),
            (* 33 *) CHAR(chr.b, 0),
            (* 34 *) NTF("word", "take_child", 0),
            \* alt: 'b' 'b' | ( 'b' | 'a' )
            (* 35 *) CHAR(chr.b, 36),
            (* 36 *) CHAR(chr.b, 0),
            (* 37 *) GROUPING(21, 0),
            (* 38 *) CHAR(chr.b, 0),
            (* 39 *) CHAR(chr.a, 0),
            \* sum, second left-recursive rule: sum 'b'
            (* 40 *) CHAR(chr.b, 0),
            \* grp: ident ( 'b' ident | 'b' {make_tree} ), the grouping and the inner
            \* ident without add_function
            (* 41 *) NTF("ident", "add_child", 42),
            (* 42 *) GROUPING(25, 0),
            (* 43 *) CHAR(chr.b, 44),
            (* 44 *) NTF("ident", "NULL", 0),
            (* 45 *) CHAR(chr.b, 0),
            \* seqn: ident 'b' SEQ BACK_TRACKING 'a' | ident 'b' SEQ, the sequences
            \* without add_seq_function
            (* 46 *) NTF("ident", "take_child", 47),
            (* 47 *) BACK_TRACKING(SEQ(CHAR(chr.b, 48), "NULL", "NULL")),
            (* 48 *) CHAR(chr.a, 0),
            (* 49 *) NTF("ident", "take_child", 50),
            (* 50 *) SEQ(CHAR(chr.b, 0), "NULL", "NULL"),
            \* int_grammar: '-' OPT ( '0' 'x' hex SEQ | '0' octal SEQ OPT
            \* | [1-9] decimal SEQ OPT ) 'U' OPT 'L' OPT 'L' OPT
            (* 51 *) SET_PS(OPT(CHARF(chr.minus, "int_data_add_char", 52), "NULL"), "int_set_pos"),
            (* 52 *) GROUPING(30, 53),
            (* 53 *) OPT(CHAR(chr.U, 54), "NULL"),
            (* 54 *) OPT(CHAR(chr.L, 55), "NULL"),
            (* 55 *) OPT(CHAR(chr.L, 0), "NULL"),
            (* 56 *) SET_PS(CHARF(chr.d0, "int_data_add_char", 57), "int_set_pos"),
            (* 57 *) CHARF(chr.x, "int_data_add_char", 58),
            (* 58 *) SEQ(CHARSET("int_data_add_char",
                                 (chr.d0..chr.d9) \cup (chr.A..chr.F) \cup (chr.a..chr.f), 0),
                         "pass_to_sequence", "use_sequence_result"),
            (* 59 *) SET_PS(CHARF(chr.d0, "int_data_add_char", 60), "int_set_pos"),
            (* 60 *) OPT(SEQ(CHARSET("int_data_add_char", chr.d0..chr.d7, 0),
                             "pass_to_sequence", "use_sequence_result"), "NULL"),
            (* 61 *) SET_PS(CHARSET("int_data_add_char", chr.d1..chr.d9, 62), "int_set_pos"),
            (* 62 *) OPT(SEQ(CHARSET("int_data_add_char", chr.d0..chr.d9, 0),
                             "pass_to_sequence", "use_sequence_result"), "NULL"),
            \* string_grammar: ( '"' ( '\' [01] [0-7] [0-7] | '\' [0'"\nr]
            \* | [ -~] less '\' and '"' ) SEQ OPT '"' ) SEQ CHAIN white_space
            (* 63 *) CHAIN(SEQ(GROUPING(34, 0), "pass_to_sequence", "use_sequence_result"), 64),
            (* 64 *) NTF("white_space", "NULL", 0),
            (* 65 *) SET_PS(CHAR(chr.quote, 66), "string_set_pos"),
            (* 66 *) OPT(SEQ(GROUPING(35, 67), "pass_to_sequence", "use_sequence_result"), "NULL"),
            (* 67 *) CHAR(chr.quote, 0),
            (* 68 *) CHAR(chr.backslash, 69),
            (* 69 *) CHARSET("string_data_add_first_octal", {chr.d0, chr.d1}, 70),
            (* 70 *) CHARSET("string_data_add_second_octal", chr.d0..chr.d7, 71),
            (* 71 *) CHARSET("string_data_add_third_octal", chr.d0..chr.d7, 0),
            (* 72 *) CHAR(chr.backslash, 73),
            (* 73 *) CHARSET("string_data_add_escaped_char",
                             {chr.d0, chr.apostrophe, chr.quote, chr.backslash, chr.n, chr.r}, 0),
            (* 74 *) CHARSET("string_data_add_normal_char",
                             (chr.space..126) \ {chr.backslash, chr.quote}, 0),
            \* btl: [ab] SEQ BACK_TRACKING 'b', and btla: the same with AVOID
            (* 75 *) BACK_TRACKING(SEQ(CHARSET("NULL", {chr.a, chr.b}, 76), "NULL", "NULL")),
            (* 76 *) CHAR(chr.b, 0),
            (* 77 *) AVOID(BACK_TRACKING(SEQ(CHARSET("NULL", {chr.a, chr.b}, 78),
                                             "NULL", "NULL"))),
            (* 78 *) CHAR(chr.b, 0),
            \* gr: [ab] SEQ 'b';  grc: [a] SEQ CHAIN 'b' 'b';  gro: [ab] SEQ OPT 'b'
            (* 79 *) SEQ(CHARSET("NULL", {chr.a, chr.b}, 80), "NULL", "NULL"),
            (* 80 *) CHAR(chr.b, 0),
            (* 81 *) CHAIN(SEQ(CHARSET("NULL", {chr.a}, 83), "NULL", "NULL"), 82),
            (* 82 *) CHAR(chr.b, 0),
            (* 83 *) CHAR(chr.b, 0),
            (* 84 *) OPT(SEQ(CHARSET("NULL", {chr.a, chr.b}, 85), "NULL", "NULL"), "NULL"),
            (* 85 *) CHAR(chr.b, 0),
            \* ilr: ilb 'a' | 'a';  ilb: ilr 'b' | 'b'
            (* 86 *) NTF("ilb", "NULL", 87),
            (* 87 *) CHAR(chr.a, 0),
            (* 88 *) CHAR(chr.a, 0),
            (* 89 *) NTF("ilr", "NULL", 90),
            (* 90 *) CHAR(chr.b, 0),
            (* 91 *) CHAR(chr.b, 0),
            \* avo: ident OPT(take_prev) AVOID  ident OPT AVOID  ident OPT(take_prev)
            (* 92 *) AVOID(OPT(NTF("ident", "add_child", 93), "take_prev")),
            (* 93 *) AVOID(OPT(NTF("ident", "add_child", 94), "NULL")),
            (* 94 *) OPT(NTF("ident", "add_child", 0), "take_prev"),
            \* term: <term> 'a' | 'a' <term>
            (* 95 *) TERMINAL("scan", 96),
            (* 96 *) CHAR(chr.a, 0),
            (* 97 *) CHAR(chr.a, 98),
            (* 98 *) TERMINAL("scan", 0),
            \* eoi: 'a' '\0' <eof> | [b\0] <eof> | 'a' 'a' <eof>
            (* 99 *) CHAR(chr.a, 100),
            (* 100 *) CHAR(chr.nul, 101),
            (* 101 *) END(0),
            (* 102 *) CHARSET("NULL", {chr.b, chr.nul}, 103),
            (* 103 *) END(0),
            (* 104 *) CHAR(chr.a, 105),
            (* 105 *) CHAR(chr.a, 106),
            (* 106 *) END(0)
        >>,
     rules |->
        <<
            (* 1 *) RULE(1, 0),                                     \* white_space
            (* 2 *) RULE(2, 3),                                     \* grouping of element 1
            (* 3 *) RULE(3, 0),
            (* 4 *) END_FUNCTION(RULE(6, 0), "create_ident_tree", "NULL"),  \* ident
            (* 5 *) RULE(8, 0),                                     \* sum
            (* 6 *) END_FUNCTION(REC_RULE("rec_add_child", 9, 23), "make_tree", "add"),
            (* 7 *) END_FUNCTION(RULE(11, 0), "pass_tree", "NULL"), \* prim
            (* 8 *) END_FUNCTION(RULE(12, 0), "make_tree", "call"), \* list
            (* 9 *) RULE(14, 0),                                    \* bt
            (* 10 *) RULE(17, 0),                                   \* bta
            (* 11 *) RULE(21, 0),                                   \* loop
            (* 12 *) REC_RULE("NULL", 22, 0),
            (* 13 *) RULE(23, 14),                                  \* twice
            (* 14 *) RULE(26, 0),
            (* 15 *) END_FUNCTION(RULE(28, 0), "make_tree", "opt"), \* opt
            (* 16 *) RULE(30, 0),                                   \* word
            (* 17 *) RULE(31, 18),                                  \* alias
            (* 18 *) RULE(34, 0),
            (* 19 *) RULE(35, 20),                                  \* alt
            (* 20 *) RULE(37, 0),
            (* 21 *) RULE(38, 22),                                  \* grouping of element 37
            (* 22 *) RULE(39, 0),
            (* 23 *) END_FUNCTION(REC_RULE("rec_add_child", 40, 0), "make_tree", "post"), \* sum
            (* 24 *) RULE(41, 0),                                   \* grp
            (* 25 *) RULE(43, 26),                                  \* grouping of element 42
            (* 26 *) END_FUNCTION(RULE(45, 0), "make_tree", "g"),
            (* 27 *) RULE(46, 28),                                  \* seqn
            (* 28 *) RULE(49, 0),
            (* 29 *) END_FUNCTION(RULE(51, 0), "create_int_tree", "NULL"),  \* int
            (* 30 *) RULE(56, 31),                                  \* grouping of element 52
            (* 31 *) RULE(59, 32),
            (* 32 *) RULE(61, 0),
            (* 33 *) END_FUNCTION(RULE(63, 0), "create_string_tree", "NULL"),  \* string
            (* 34 *) RULE(65, 0),                                   \* grouping of element 63
            (* 35 *) RULE(68, 36),                                  \* grouping of element 66
            (* 36 *) RULE(72, 37),
            (* 37 *) RULE(74, 0),
            (* 38 *) RULE(75, 0),                                   \* btl
            (* 39 *) RULE(77, 0),                                   \* btla
            (* 40 *) RULE(79, 0),                                   \* gr
            (* 41 *) RULE(81, 0),                                   \* grc
            (* 42 *) RULE(84, 0),                                   \* gro
            (* 43 *) RULE(86, 44),                                  \* ilr
            (* 44 *) RULE(88, 0),
            (* 45 *) RULE(89, 46),                                  \* ilb
            (* 46 *) RULE(91, 0),
            (* 47 *) END_FUNCTION(RULE(92, 0), "make_tree", "avo"), \* avo
            (* 48 *) RULE(95, 49),                                  \* term
            (* 49 *) RULE(97, 0),
            (* 50 *) RULE(99, 51),                                  \* eoi
            (* 51 *) RULE(102, 52),
            (* 52 *) RULE(104, 0)
        >>,
     non_terminals |->
        [white_space |-> [name |-> "white_space", normal |-> 1, recursive |-> 0],
         ident |-> [name |-> "ident", normal |-> 4, recursive |-> 0],
         sum |-> [name |-> "sum", normal |-> 5, recursive |-> 6],
         prim |-> [name |-> "prim", normal |-> 7, recursive |-> 0],
         list |-> [name |-> "list", normal |-> 8, recursive |-> 0],
         bt |-> [name |-> "bt", normal |-> 9, recursive |-> 0],
         bta |-> [name |-> "bta", normal |-> 10, recursive |-> 0],
         loop |-> [name |-> "loop", normal |-> 11, recursive |-> 12],
         twice |-> [name |-> "twice", normal |-> 13, recursive |-> 0],
         opt |-> [name |-> "opt", normal |-> 15, recursive |-> 0],
         word |-> [name |-> "word", normal |-> 16, recursive |-> 0],
         alias |-> [name |-> "alias", normal |-> 17, recursive |-> 0],
         alt |-> [name |-> "alt", normal |-> 19, recursive |-> 0],
         grp |-> [name |-> "grp", normal |-> 24, recursive |-> 0],
         seqn |-> [name |-> "seqn", normal |-> 27, recursive |-> 0],
         int |-> [name |-> "int", normal |-> 29, recursive |-> 0],
         string |-> [name |-> "string", normal |-> 33, recursive |-> 0],
         btl |-> [name |-> "btl", normal |-> 38, recursive |-> 0],
         btla |-> [name |-> "btla", normal |-> 39, recursive |-> 0],
         gr |-> [name |-> "gr", normal |-> 40, recursive |-> 0],
         grc |-> [name |-> "grc", normal |-> 41, recursive |-> 0],
         gro |-> [name |-> "gro", normal |-> 42, recursive |-> 0],
         ilr |-> [name |-> "ilr", normal |-> 43, recursive |-> 0],
         ilb |-> [name |-> "ilb", normal |-> 45, recursive |-> 0],
         avo |-> [name |-> "avo", normal |-> 47, recursive |-> 0],
         term |-> [name |-> "term", normal |-> 48, recursive |-> 0],
         eoi |-> [name |-> "eoi", normal |-> 50, recursive |-> 0]]]

\* non_terminal_dict_p all_nt: the grammar that was built.
VARIABLE all_nt

Elements == all_nt.elements

Rules == all_nt.rules

NonTerminals == all_nt.non_terminals

find_nt(name) == NonTerminals[name]

\* The non-terminals a parse is started with.
StartNTs == {"white_space", "ident", "sum", "list", "bt", "bta", "loop", "twice", "opt",
             "alias", "alt", "grp", "seqn", "btl", "btla"}

\* The identifiers that the grammar has declared as keywords (KEYWORD sets
\* *keyword_state = 1 for the interned string).
Keywords == {<<chr.a, chr.a>>}

(***************************************************************************)
(* Results and reference-counted payloads (struct result,                  *)
(* ref_counted_base_t).  A result is the pointer it holds in `data`; every *)
(* payload of the program carries the generic header, so inc and dec of a  *)
(* non-empty result are ref_counted_base_inc and ref_counted_base_dec.     *)
(* The heap is the sequence of all payloads ever allocated; `cnt` is the   *)
(* unsigned long count, kept as the representative of its residue modulo   *)
(* 2^64 that is nearest to zero (-1 is ULONG_MAX), and `incs`, `decs`     *)
(* count the increments (with the initial 1) and the decrements.           *)
(***************************************************************************)
NoPos == text_pos(0, 0, 0)

new_payload(kind, release) ==
    [kind |-> kind, release |-> release, cnt |-> 1, incs |-> 1, decs |-> 0,
     freed |-> FALSE, val |-> << >>, ps |-> NoPos, prev |-> 0, child |-> 0,
     children |-> << >>, type_name |-> "NULL", is_keyword |-> FALSE,
     returned |-> FALSE, touched |-> FALSE, value |-> 0, state |-> 0, sign |-> 1,
     buffer |-> 0, next |-> 0, length |-> 0, octal_char |-> 0]

\* MALLOC: the new payload is the last of the heap.
Alloc(h, payload) == Append(h, payload)
Last(h) == Len(h)

ref_counted_base_inc(h, p) == [h EXCEPT ![p].cnt = @ + 1, ![p].incs = @ + 1]

\* The payload whose count release_prev_child decrements after it has
\* released the child: prev_child itself.
ReleasedBy(h, p) == p

RECURSIVE ref_counted_base_dec(_, _)
RECURSIVE release_all(_, _, _)

\* RESULT_RELEASE of the results children[i..] of tree p.
release_all(h, p, i) ==
    IF i > Len(h[p].children) THEN h
    ELSE LET c == h[p].children[i]
             h1 == IF c # 0 THEN ref_counted_base_dec(h, c) ELSE h
         IN  release_all([h1 EXCEPT ![p].children[i] = 0], p, i + 1)

ref_counted_base_dec(h, p) ==
    LET h1 == [h EXCEPT ![p].cnt = @ - 1, ![p].decs = @ + 1]
    IN  IF h1[p].cnt # 0 THEN h1
        ELSE IF h1[p].release = "release_prev_child"
        THEN LET c == h1[p].child
                 h2 == IF c # 0 THEN ref_counted_base_dec(h1, c) ELSE h1
                 h3 == [h2 EXCEPT ![p].child = 0]
                 q == ReleasedBy(h3, p)
                 h4 == IF q # 0 THEN ref_counted_base_dec(h3, q) ELSE h3
             IN  [h4 EXCEPT ![p].freed = TRUE]
        ELSE IF h1[p].release = "release_tree"
        THEN [release_all(h1, p, 1) EXCEPT ![p].freed = TRUE]
        ELSE [h1 EXCEPT ![p].freed = TRUE]

\* result_assign(trg, src): the heap afterwards; trg then holds src.
result_assign(h, trg, src) ==
    LET h1 == IF src # 0 THEN ref_counted_base_inc(h, src) ELSE h
    IN  IF trg # 0 THEN ref_counted_base_dec(h1, trg) ELSE h1

\* result_release(result): the heap afterwards; result is then empty.
result_release(h, r) == IF r # 0 THEN ref_counted_base_dec(h, r) ELSE h

\* DISP_RESULT of several locals, in the order given.
RECURSIVE disp_results(_, _)
disp_results(h, rs) ==
    IF rs = << >> THEN h ELSE disp_results(result_release(h, Head(rs)), Tail(rs))

(***************************************************************************)
(* The client callbacks of the grammars above.  Each returns the record    *)
(* [ok, h, result]: what the function returns, the heap afterwards and     *)
(* what the out-parameter `result` holds afterwards.                       *)
(***************************************************************************)
CbRet(ok, h, result) == [ok |-> ok, h |-> h, result |-> result]

\* result_assign_ref_counted(result, data, print): data is the newest payload.
\* The former content of result is overwritten, not released.
assign_ref_counted(h) == CbRet(TRUE, [h EXCEPT ![Last(h)].cnt = 1], Last(h))

ident_add_char(h, prev, ch, result) ==
    IF prev = 0
    THEN assign_ref_counted(
             Alloc(h, [new_payload("ident_data", "NULL") EXCEPT !.val = <<ch>>]))
    ELSE LET h1 == result_assign(h, result, prev)
         IN  CbRet(TRUE,
                   IF Len(h1[prev].val) < 64
                   THEN [h1 EXCEPT ![prev].val = Append(@, ch),
                                   ![prev].touched = @ \/ h1[prev].returned]
                   ELSE h1,
                   prev)

ident_set_pos(h, result, ps) ==
    IF result # 0 THEN [h EXCEPT ![result].ps = ps] ELSE h

\* A function that handles every character as the first one of a decimal
\* number, without a state to resume in.
int_data_resume_L0(d, ch) ==
    IF ch = chr.minus THEN [d EXCEPT !.sign = -1, !.state = 1]
    ELSE IF ch \in chr.d0..chr.d9
    THEN [d EXCEPT !.value = 10 * d.value + ch - chr.d0, !.state = 6]
    ELSE [d EXCEPT !.ok = FALSE]

\* The co-routine of int_data_add_char: what the call does to the int_data
\* when it is resumed in d.state with character ch; ok is the value returned.
int_data_resume(d, ch) ==
    LET stop == [d EXCEPT !.ok = FALSE]
        wait(value, state) == [d EXCEPT !.value = value, !.state = state]
        hex == IF ch \in chr.d0..chr.d9 THEN wait(16 * d.value + ch - chr.d0, 4)
               ELSE IF ch \in chr.A..chr.F THEN wait(16 * d.value + ch + (10 - chr.A), 4)
               ELSE IF ch \in chr.a..chr.f THEN wait(16 * d.value + ch + (10 - chr.a), 4)
               ELSE stop
        octal == IF ch \in chr.d0..chr.d7 THEN wait(8 * d.value + ch - chr.d0, 5) ELSE stop
        decimal == IF ch \in chr.d0..chr.d9 THEN wait(10 * d.value + ch - chr.d0, 6) ELSE stop
        L1 == IF ch = chr.d0 THEN wait(d.value, 2) ELSE decimal
    IN  CASE d.state = 0 -> IF ch = chr.minus THEN [d EXCEPT !.sign = -1, !.state = 1] ELSE L1
          [] d.state = 1 -> L1
          [] d.state = 2 -> IF ch = chr.x THEN wait(d.value, 3) ELSE octal
          [] d.state \in {3, 4} -> hex
          [] d.state = 5 -> octal
          [] d.state = 6 -> decimal

int_data_add_char(h, prev, ch, result) ==
    LET r == IF prev = 0
             THEN assign_ref_counted(
                      Alloc(h, [new_payload("int_data", "NULL") EXCEPT
                                   !.ps = text_pos(0, -1, 0)]))
             ELSE CbRet(TRUE, result_assign(h, result, prev), prev)
        p == r.result
        d == int_data_resume([ok |-> TRUE, value |-> r.h[p].value,
                              state |-> r.h[p].state, sign |-> r.h[p].sign], ch)
    IN  CbRet(d.ok, [r.h EXCEPT ![p].value = d.value, ![p].state = d.state,
                                ![p].sign = d.sign], p)

int_set_pos(h, result, ps) ==
    IF result # 0 /\ h[result].ps.cur_line = -1 THEN [h EXCEPT ![result].ps = ps] ELSE h

\* The byte that memory from malloc holds before the program writes it.
VARIABLE uninit

\* char buf[100] of struct string_buffer
ChunkSize == 100

\* global_string_buffer: the first string buffer allocated, NULL before.
global_string_buffer(h) ==
    IF \E p \in 1..Len(h) : h[p].kind = "string_buffer"
    THEN CHOOSE p \in 1..Len(h) : /\ h[p].kind = "string_buffer"
                                  /\ \A q \in 1..(p - 1) : h[q].kind # "string_buffer"
    ELSE 0

\* new_string_buffer: buf is not initialised.
new_string_buffer(h) ==
    Alloc(h, [new_payload("string_buffer", "NULL") EXCEPT
                 !.val = [j \in 1..ChunkSize |-> uninit]])

string_set_pos(h, result, ps) ==
    IF result = 0
    THEN assign_ref_counted(Alloc(h, [new_payload("string_data", "NULL") EXCEPT !.ps = ps]))
    ELSE CbRet(TRUE, h, result)

string_data_add_normal_char(h, prev, ch, result) ==
    LET length(h1) == h1[prev].length
        set_buffer(h1, b) == [h1 EXCEPT ![prev].buffer = b]
        \* if (global_string_buffer == NULL) global_string_buffer = new_string_buffer()
        with_global(h1) == IF global_string_buffer(h1) = 0 THEN new_string_buffer(h1) ELSE h1
        first(h1) == set_buffer(h1, global_string_buffer(h1))
        \* if (string_data->buffer->next == NULL) ...->next = new_string_buffer()
        with_next(h1) == IF h1[h1[prev].buffer].next = 0
                         THEN [new_string_buffer(h1) EXCEPT
                                  ![h1[prev].buffer].next = Len(h1) + 1]
                         ELSE h1
        to_next(h1) == set_buffer(h1, h1[h1[prev].buffer].next)
        buffer(h1) == IF length(h1) = 0 THEN first(with_global(h1))
                      ELSE IF length(h1) % ChunkSize = 0 THEN to_next(with_next(h1))
                      ELSE h1
        \* string_data->buffer->buf[j++] = ch; string_data->length++;
        store(h1) == [h1 EXCEPT ![h1[prev].buffer].val[(length(h1) % ChunkSize) + 1] = ch,
                                ![prev].length = @ + 1]
    IN  CbRet(TRUE, store(buffer(result_assign(h, result, prev))), prev)

string_data_add_escaped_char(h, prev, ch, result) ==
    string_data_add_normal_char(h, prev,
        IF ch = chr.d0 THEN chr.nul ELSE IF ch = chr.n THEN chr.nl
        ELSE IF ch = chr.r THEN chr.cr ELSE ch, result)

\* octal_char = (ch - '0') << 6
string_data_add_first_octal(h, prev, ch, result) ==
    CbRet(TRUE, [result_assign(h, result, prev) EXCEPT
                    ![prev].octal_char = ((ch - chr.d0) * 64) % 256], prev)

\* octal_char |= (ch - '0') << 3, on the bits 3..5 that the first digit
\* has left 0
string_data_add_second_octal(h, prev, ch, result) ==
    CbRet(TRUE, [result_assign(h, result, prev) EXCEPT
                    ![prev].octal_char = @ + (ch - chr.d0) * 8], prev)

string_data_add_third_octal(h, prev, ch, result) ==
    string_data_add_normal_char(h, prev, h[prev].octal_char + (ch - chr.d0), result)

\* The loop of create_string_tree that copies length characters, from the
\* i-th on, one string_buffer at a time: it goes to the next buffer when
\* j > ChunkSize, that is after it has copied buf[0..ChunkSize], the last of
\* which is the byte behind the array, which nothing has written.
RECURSIVE string_copy(_, _, _, _)
string_copy(h, string_buffer, i, length) ==
    IF i >= length \/ string_buffer = 0 THEN << >>
    ELSE LET n == IF length - i < ChunkSize + 1 THEN length - i ELSE ChunkSize + 1
         IN  [j \in 1..n |-> IF j <= ChunkSize THEN h[string_buffer].val[j] ELSE uninit]
             \o string_copy(h, h[string_buffer].next, i + n, length)

create_string_tree(h, rule_result, data, result) ==
    assign_ref_counted(
        Alloc(h, [new_payload("string", "NULL") EXCEPT
                     !.type_name = "string",
                     !.ps = h[rule_result].ps,
                     !.val = string_copy(h, global_string_buffer(h), 0,
                                         h[rule_result].length)]))

pass_to_sequence(h, prev, seq) == CbRet(TRUE, result_assign(h, seq, prev), prev)

use_sequence_result(h, prev, seq, result) == CbRet(TRUE, result_assign(h, result, seq), seq)

create_ident_tree(h, rule_result, data, result) ==
    IF rule_result = 0 THEN CbRet(TRUE, h, result)
    ELSE assign_ref_counted(
             Alloc(h, [new_payload("ident", "NULL") EXCEPT
                          !.type_name = "ident",
                          !.ps = h[rule_result].ps,
                          !.val = h[rule_result].val,
                          !.is_keyword = (h[rule_result].val \in Keywords)]))

\* create_int_tree reads the int_data of rule_result, which the grammar's
\* grouping has always produced.
create_int_tree(h, rule_result, data, result) ==
    assign_ref_counted(
        Alloc(h, [new_payload("int", "NULL") EXCEPT
                     !.type_name = "int",
                     !.ps = h[rule_result].ps,
                     !.value = h[rule_result].sign * h[rule_result].value]))

\* malloc_prev_child, then child := elem.
new_prev_child(h, prev, elem) ==
    LET h1 == Alloc(h, [new_payload("prev_child", "release_prev_child") EXCEPT
                           !.prev = prev, !.child = elem])
    IN  IF elem # 0 THEN ref_counted_base_inc(h1, elem) ELSE h1

add_child(h, prev, elem, result) ==
    LET h1 == IF prev # 0 THEN ref_counted_base_inc(h, prev) ELSE h
    IN  assign_ref_counted(new_prev_child(h1, prev, elem))

rec_add_child(h, rec_result, result) ==
    assign_ref_counted(new_prev_child(h, 0, rec_result))

take_child(h, prev, elem, result) == CbRet(TRUE, result_assign(h, result, elem), elem)

\* The child results of a previous-child chain, first child first.
RECURSIVE chain_children(_, _)
chain_children(h, p) ==
    IF p = 0 THEN << >> ELSE Append(chain_children(h, h[p].prev), h[p].child)

RECURSIVE inc_all(_, _)
inc_all(h, rs) ==
    IF rs = << >> THEN h
    ELSE inc_all(IF Head(rs) # 0 THEN ref_counted_base_inc(h, Head(rs)) ELSE h, Tail(rs))

\* make_tree_with_children: the new tree is the newest payload.
make_tree_with_children(h, name, children) ==
    LET cs == chain_children(h, children)
    IN  Alloc(inc_all(h, cs),
              [new_payload("tree", "release_tree") EXCEPT
                  !.type_name = name, !.children = cs])

make_tree(h, rule_result, data, result) ==
    assign_ref_counted(make_tree_with_children(h, data, rule_result))

\* pass_tree: result_transfer(result, &child->child).
pass_tree(h, rule_result, data, result) ==
    LET c == h[rule_result].child
        h1 == [h EXCEPT ![rule_result].child = 0]
    IN  CbRet(TRUE, IF result # 0 THEN ref_counted_base_dec(h1, result) ELSE h1, c)

add_seq_as_list(h, prev, seq, result) ==
    LET h1 == make_tree_with_children(h, "list", seq)
        list == Last(h1)
        h2 == Alloc([h1 EXCEPT ![list].cnt = 1],
                    [new_payload("prev_child", "release_prev_child") EXCEPT
                        !.prev = prev, !.child = list])
    IN  assign_ref_counted(h2)

not_a_keyword(h, result, argument) == ~h[result].is_keyword

equal_string(h, result, argument) ==
    /\ result # 0
    /\ h[result].type_name = "ident"
    /\ h[result].val = argument

(***************************************************************************)
(* The state.                                                              *)
(***************************************************************************)
VARIABLES
    input,       \* the text given to text_buffer_assign_string
    startNT,     \* the non-terminal the caller parses
    tb,          \* text_buffer_t
    parser,      \* parser_t: nt_stack and cache_hit_function
    cache,       \* solutions_t: sols[0..len], each a list of solutions
    heap,        \* the payloads allocated so far
    ntmem,       \* the struct nt_stack nodes and nt_stack_allocated
    ex,          \* highest_pos and expected[0..nr_expected)
    stack,       \* the active calls of the parse functions
    ret,         \* what the call that has just returned gave back
    vetoes,      \* vetoes the client callbacks have cast so far
    phase,       \* where the caller of parse_nt is
    fresh,       \* what parse_nt has returned, per (nt, offset), without a cache
    saved,       \* the positions a caller has copied from text_buffer->pos
    hash_tree,   \* the static hash_tree of ident_string and its nodes
    keyword_state, \* byte *keyword_state: the node whose state it points at
    interned,    \* history: the calls of ident_string, the bytes written
    char_set     \* struct char_set, and the call of char_set_add_range on it

\* The state of the units that are exercised on their own.
units == <<saved, hash_tree, keyword_state, interned, char_set, uninit, all_nt>>

vars == <<input, startNT, tb, parser, cache, heap, ntmem, ex, stack, ret, vetoes, phase,
          fresh, units>>

\* The mutable program state that the steps of the parse functions update.
Cur == [tb |-> tb, parser |-> parser, cache |-> cache, heap |-> heap,
        ntmem |-> ntmem, ex |-> ex, veto |-> vetoes]

(***************************************************************************)
(* Brute force cache (solutions_init, solutions_find, solutions_free).     *)
(* A cache_item pointer is the pair (bucket, nt) that identifies its       *)
(* solution.                                                               *)
(***************************************************************************)
solutions_init(tbuf) == [len |-> tbuf.buffer_len,
                         sols |-> [i \in 0..tbuf.buffer_len |-> << >>]]

NoItem == [pos |-> -1, nt |-> "NULL"]

SolIndex(c, key) ==
    CHOOSE i \in 1..Len(c.sols[key.pos]) :
        /\ c.sols[key.pos][i].nt = key.nt
        /\ \A j \in 1..(i - 1) : c.sols[key.pos][j].nt # key.nt

CacheItem(c, key) == c.sols[key.pos][SolIndex(c, key)].cache_item

\* The cache item is left as it was.
SetCacheItem_none(c, key, item) == c

SetCacheItem(c, key, item) ==
    [c EXCEPT !.sols[key.pos][SolIndex(c, key)].cache_item = item]

\* The first solution at the position is taken, whatever its non-terminal.
solutions_find_pos(c, at, nt) ==
    LET p == IF at > c.len THEN c.len ELSE at
    IN  IF c.sols[p] # << >>
        THEN [cache |-> c, item |-> [pos |-> p, nt |-> c.sols[p][1].nt]]
        ELSE [cache |-> [c EXCEPT !.sols[p] =
                            <<[nt |-> nt,
                               cache_item |-> [success |-> "s_unknown", result |-> 0,
                                               next_pos |-> NoPos]]>>],
              item |-> [pos |-> p, nt |-> nt]]

\* A new solution is put in front of the bucket at every call.
solutions_find_new(c, at, nt) ==
    LET p == IF at > c.len THEN c.len ELSE at
    IN  [cache |-> [c EXCEPT !.sols[p] =
                       <<[nt |-> nt,
                          cache_item |-> [success |-> "s_unknown", result |-> 0,
                                          next_pos |-> NoPos]]>> \o @],
         item |-> [pos |-> p, nt |-> nt]]

solutions_find(c, at, nt) ==
    LET p == IF at > c.len THEN c.len ELSE at
        key == [pos |-> p, nt |-> nt]
    IN  IF \E i \in 1..Len(c.sols[p]) : c.sols[p][i].nt = nt
        THEN [cache |-> c, item |-> key]
        ELSE [cache |-> [c EXCEPT !.sols[p] =
                            <<[nt |-> nt,
                               cache_item |-> [success |-> "s_unknown", result |-> 0,
                                               next_pos |-> NoPos]]>> \o @],
              item |-> key]

\* solutions_free: dec of every stored result, bucket by bucket.
RECURSIVE free_bucket(_, _)
free_bucket(h, sols) ==
    IF sols = << >> THEN h
    ELSE free_bucket(result_release(h, Head(sols).cache_item.result), Tail(sols))

RECURSIVE solutions_free(_, _, _)
solutions_free(h, c, i) ==
    IF i > c.len THEN h ELSE solutions_free(free_bucket(h, c.sols[i]), c, i + 1)

(***************************************************************************)
(* The stack of non-terminals (nt_stack_push, nt_stack_dispose,            *)
(* nt_stack_pop) and the expectations (expect_element).                    *)
(***************************************************************************)
\* nt_stack_push: the state afterwards, with parser->nt_stack = the child.
nt_stack_push(m, name) ==
    LET reuse == m.ntmem.allocated # 0
        child == IF reuse THEN m.ntmem.allocated ELSE Len(m.ntmem.nodes) + 1
        node == [name |-> name, ref_count |-> 1, pos |-> m.tb.pos,
                 parent |-> m.parser.nt_stack]
        nodes1 == IF reuse THEN [m.ntmem.nodes EXCEPT ![child] = node]
                  ELSE Append(m.ntmem.nodes, node)
        nodes2 == IF m.parser.nt_stack # 0
                  THEN [nodes1 EXCEPT ![m.parser.nt_stack].ref_count = @ + 1]
                  ELSE nodes1
    IN  [m EXCEPT !.ntmem = [nodes |-> nodes2,
                             allocated |-> IF reuse THEN m.ntmem.nodes[child].parent
                                           ELSE m.ntmem.allocated],
                  !.parser.nt_stack = child]

RECURSIVE nt_stack_dispose(_, _)
nt_stack_dispose(nm, p) ==
    IF p = 0 THEN nm
    ELSE LET nodes1 == [nm.nodes EXCEPT ![p].ref_count = @ - 1]
         IN  IF nodes1[p].ref_count # 0 THEN [nm EXCEPT !.nodes = nodes1]
             ELSE nt_stack_dispose(
                      [nodes |-> [nodes1 EXCEPT ![p].parent = nm.allocated],
                       allocated |-> p],
                      nodes1[p].parent)

\* parser->nt_stack = nt_stack_pop(parser->nt_stack)
nt_stack_pop(m) ==
    LET cur == m.parser.nt_stack
    IN  [m EXCEPT !.ntmem = nt_stack_dispose(m.ntmem, cur),
                  !.parser.nt_stack = m.ntmem.nodes[cur].parent]

MAX_EXP_SYM == 200

\* A failure at a higher offset moves highest_pos and keeps the set.
expect_element_keep(m, element) ==
    IF m.tb.pos.pos < m.ex.highest_pos.pos THEN m
    ELSE LET ex1 == [m.ex EXCEPT !.highest_pos = m.tb.pos]
             e == [nt_stack |-> m.parser.nt_stack, element |-> element,
                   at |-> m.tb.pos.pos]
         IN  IF \E i \in 1..Len(ex1.expected) :
                    /\ ex1.expected[i].nt_stack = m.parser.nt_stack
                    /\ ex1.expected[i].element = element
             THEN [m EXCEPT !.ex = ex1]
             ELSE [m EXCEPT !.ex = [ex1 EXCEPT !.expected = Append(@, e)],
                            !.ntmem.nodes[m.parser.nt_stack].ref_count = @ + 1]

\* The expectation is recorded without a reference to the frame.
expect_element_noref(m, element) ==
    IF m.tb.pos.pos < m.ex.highest_pos.pos THEN m
    ELSE LET ex1 == IF m.tb.pos.pos > m.ex.highest_pos.pos
                    THEN [highest_pos |-> m.tb.pos, expected |-> << >>]
                    ELSE m.ex
             e == [nt_stack |-> m.parser.nt_stack, element |-> element,
                   at |-> m.tb.pos.pos]
         IN  IF \E i \in 1..Len(ex1.expected) :
                    /\ ex1.expected[i].nt_stack = m.parser.nt_stack
                    /\ ex1.expected[i].element = element
             THEN [m EXCEPT !.ex = ex1]
             ELSE [m EXCEPT !.ex = [ex1 EXCEPT !.expected = Append(@, e)]]

expect_element(m, element) ==
    IF m.tb.pos.pos < m.ex.highest_pos.pos THEN m
    ELSE LET \* `at` of an entry is history: the offset it was recorded at.
             ex1 == IF m.tb.pos.pos > m.ex.highest_pos.pos
                    THEN [highest_pos |-> m.tb.pos, expected |-> << >>]
                    ELSE m.ex
             e == [nt_stack |-> m.parser.nt_stack, element |-> element,
                   at |-> m.tb.pos.pos]
         IN  IF \E i \in 1..Len(ex1.expected) :
                    /\ ex1.expected[i].nt_stack = m.parser.nt_stack
                    /\ ex1.expected[i].element = element
             THEN [m EXCEPT !.ex = ex1]
             ELSE IF Len(ex1.expected) < MAX_EXP_SYM
             THEN [m EXCEPT !.ex = [ex1 EXCEPT !.expected = Append(@, e)],
                            !.ntmem.nodes[m.parser.nt_stack].ref_count = @ + 1]
             ELSE [m EXCEPT !.ex = ex1]

(***************************************************************************)
(* Calls through the function pointers of the grammar.  v is what the      *)
(* client function does on its own account: "ok" (it does what the         *)
(* grammar's function does), "veto" (it returns false and leaves result    *)
(* alone) or "write_veto" (it writes result, then returns false, as        *)
(* int_data_add_char does).                                                *)
(***************************************************************************)
Vetoed(v, r, h, result) ==
    IF v = "veto" THEN CbRet(FALSE, h, result)
    ELSE IF v = "write_veto" THEN [r EXCEPT !.ok = FALSE]
    ELSE r

\* The behaviours open to a call through function pointer `name`.
VetoModes(name, cast) ==
    IF name = "NULL" \/ cast >= MaxVeto THEN {"ok"} ELSE {"ok", "veto", "write_veto"}

Spend(m, v) == IF v = "ok" THEN m ELSE [m EXCEPT !.veto = @ + 1]

CallAddChar(name, v, h, prev, ch, result) ==
    Vetoed(v, CASE name = "ident_add_char" -> ident_add_char(h, prev, ch, result)
                [] name = "int_data_add_char" -> int_data_add_char(h, prev, ch, result)
                [] name = "string_data_add_normal_char" ->
                       string_data_add_normal_char(h, prev, ch, result)
                [] name = "string_data_add_escaped_char" ->
                       string_data_add_escaped_char(h, prev, ch, result)
                [] name = "string_data_add_first_octal" ->
                       string_data_add_first_octal(h, prev, ch, result)
                [] name = "string_data_add_second_octal" ->
                       string_data_add_second_octal(h, prev, ch, result)
                [] name = "string_data_add_third_octal" ->
                       string_data_add_third_octal(h, prev, ch, result),
           h, result)

CallAdd(name, v, h, prev, elem, result) ==
    Vetoed(v, CASE name = "add_child" -> add_child(h, prev, elem, result)
                [] name = "take_child" -> take_child(h, prev, elem, result), h, result)

CallAddSkip(name, v, h, prev, result) ==
    Vetoed(v, CASE name = "take_prev" -> CbRet(TRUE, result_assign(h, result, prev), prev), h, result)

CallBeginSeq(name, h, prev, seq) ==
    CASE name = "pass_to_sequence" -> pass_to_sequence(h, prev, seq)

CallAddSeq(name, v, h, prev, seq, result) ==
    Vetoed(v, CASE name = "use_sequence_result" -> use_sequence_result(h, prev, seq, result)
                [] name = "add_seq_as_list" -> add_seq_as_list(h, prev, seq, result), h, result)

CallCondition(name, v, h, result, argument) ==
    /\ v = "ok"
    /\ CASE name = "not_a_keyword" -> not_a_keyword(h, result, argument)
         [] name = "equal_string" -> equal_string(h, result, argument)

CallSetPos(name, h, result, ps) ==
    CASE name = "ident_set_pos" -> CbRet(TRUE, ident_set_pos(h, result, ps), result)
      [] name = "int_set_pos" -> CbRet(TRUE, int_set_pos(h, result, ps), result)
      [] name = "string_set_pos" -> string_set_pos(h, result, ps)

CallEnd(name, v, h, rule_result, data, result) ==
    Vetoed(v, CASE name = "create_ident_tree" -> create_ident_tree(h, rule_result, data, result)
                [] name = "create_int_tree" -> create_int_tree(h, rule_result, data, result)
                [] name = "create_string_tree" ->
                       create_string_tree(h, rule_result, data, result)
                [] name = "make_tree" -> make_tree(h, rule_result, data, result)
                [] name = "pass_tree" -> pass_tree(h, rule_result, data, result), h, result)

CallRecStart(name, v, h, rec_result, result) ==
    Vetoed(v, CASE name = "rec_add_child" -> rec_add_child(h, rec_result, result), h, result)

(***************************************************************************)
(* The call stack of the parse functions.                                  *)
(***************************************************************************)
Top == stack[Len(stack)]

\* `entry` is the position at which the call was made, `before` the
\* position just before the step that returned, `pc` where in the function
\* that step was, `nt` the non-terminal of a parse_nt call, `frame` the
\* parameters and locals of the call as that step found them.
NoRet == [active |-> FALSE, fn |-> "NULL", ok |-> FALSE, out |-> 0, entry |-> NoPos,
          before |-> NoPos, pc |-> "NULL", nt |-> "NULL", frame |-> [fn |-> "NULL"]]

\* The value a result holds: the payload and all it points to, without the
\* reference counts.
RECURSIVE ValueOf(_, _)
ValueOf(h, p) ==
    IF p = 0 THEN [kind |-> "empty"]
    ELSE [kind |-> h[p].kind, val |-> h[p].val, ps |-> h[p].ps,
          type_name |-> h[p].type_name, is_keyword |-> h[p].is_keyword,
          prev |-> ValueOf(h, h[p].prev), child |-> ValueOf(h, h[p].child),
          children |-> [i \in 1..Len(h[p].children) |-> ValueOf(h, h[p].children[i])]]

NoFresh == [known |-> FALSE]

\* What a call of parse_nt without a cache gave back.
Outcome(ok, m, out) ==
    [known |-> TRUE, ok |-> ok, pos |-> m.tb.pos, value |-> ValueOf(m.heap, out)]

Running(fn, pc) ==
    /\ phase = "parsing"
    /\ stack # << >>
    /\ Top.fn = fn
    /\ Top.pc = pc

\* What a step of a parse function ends with: it continues in its own
\* frame f, it calls a parse function, or it returns.
Goto(f) == [op |-> "goto", f |-> f]
Call(f, callee) == [op |-> "call", f |-> f, callee |-> callee]
Return(ok, out) == [op |-> "return", ok |-> ok, out |-> out]

Apply(ctl, m) ==
    /\ tb' = m.tb
    /\ parser' = m.parser
    /\ cache' = m.cache
    /\ heap' = m.heap
    /\ ntmem' = m.ntmem
    /\ ex' = m.ex
    /\ vetoes' = m.veto
    /\ UNCHANGED <<input, startNT, phase, units>>
    /\ IF ctl.op = "goto"
       THEN /\ stack' = [stack EXCEPT ![Len(stack)] = ctl.f]
            /\ ret' = NoRet
       ELSE IF ctl.op = "call"
       THEN /\ stack' = Append([stack EXCEPT ![Len(stack)] = ctl.f],
                               [ctl.callee EXCEPT !.entry = m.tb.pos,
                                                   !.nt_stack = m.parser.nt_stack])
            /\ ret' = NoRet
       ELSE /\ stack' = SubSeq(stack, 1, Len(stack) - 1)
            /\ ret' = [active |-> TRUE, fn |-> Top.fn, ok |-> ctl.ok,
                       out |-> ctl.out, entry |-> Top.entry, before |-> tb.pos,
                       pc |-> Top.pc,
                       nt |-> IF Top.fn = "parse_nt" THEN Top.non_term ELSE "NULL",
                       frame |-> Top]
    /\ fresh' = IF /\ ctl.op = "return"
                   /\ Top.fn = "parse_nt"
                   /\ parser.cache_hit_function = "NULL"
                THEN [fresh EXCEPT ![Top.non_term][Top.entry.pos] =
                         Outcome(ctl.ok, m, ctl.out)]
                ELSE fresh

\* The frames of the four parse functions: parameters, then locals.  An
\* out-parameter (result, rule_result) holds what the caller's variable
\* holds; the caller copies it back when the call returns.  The last line
\* of a frame is history: `entry` the position and `nt_stack` the value of
\* parser->nt_stack at the call; `tried` the
\* rules of the list tried so far and `won` the one that succeeded; `pass`
\* the left-recursive rules tried in the current pass, `last_result` and
\* `last_pos` the result and position that the last successful rule left;
\* `skipped` whether the optional element has been skipped ("tried") and
\* the rest of the rule has then failed ("failed"), `elem_tried` whether
\* parse_element was called for the element.
Frame_parse_nt(non_term, result) ==
    [fn |-> "parse_nt", pc |-> "enter",
     non_term |-> non_term, result |-> result,
     cache_item |-> NoItem, rule |-> 0, start_result |-> 0, rule_result |-> 0,
     entry |-> NoPos, nt_stack |-> 0, tried |-> << >>, won |-> 0, pass |-> << >>,
     last_result |-> 0, last_pos |-> NoPos]

Frame_parse_rule(element, prev_result, rule, rule_result) ==
    [fn |-> "parse_rule", pc |-> "enter",
     element |-> element, prev_result |-> prev_result, rule |-> rule,
     rule_result |-> rule_result,
     sp |-> NoPos, sp_loop |-> NoPos, skip_result |-> 0, seq_begin |-> 0,
     seq_elem |-> 0, elem |-> 0, result |-> 0, next_seq_elem |-> 0,
     entry |-> NoPos, nt_stack |-> 0, skipped |-> "no", elem_tried |-> FALSE]

Frame_parse_seq(element, prev_seq, prev, rule, rule_result) ==
    [fn |-> "parse_seq", pc |-> "enter",
     element |-> element, prev_seq |-> prev_seq, prev |-> prev, rule |-> rule,
     rule_result |-> rule_result,
     sp |-> NoPos, result |-> 0, seq_elem |-> 0,
     entry |-> NoPos, nt_stack |-> 0]

Frame_parse_element(element, prev_result, result) ==
    [fn |-> "parse_element", pc |-> "enter",
     element |-> element, prev_result |-> prev_result, result |-> result,
     sp |-> NoPos, nt_result |-> 0, rule_result |-> 0, rule |-> 0, next_pos |-> 0,
     entry |-> NoPos, nt_stack |-> 0, tried |-> << >>, won |-> 0]

(***************************************************************************)
(* parse_nt                                                                *)
(***************************************************************************)
\* Entry without the write of s_fail to an item that reads s_unknown.
nt_enter_unseeded(f, m) ==
    LET nt == find_nt(f.non_term)
        first == [f EXCEPT !.pc = "normal", !.rule = nt.normal]
    IN  IF m.parser.cache_hit_function # "NULL"
        THEN LET found == solutions_find(m.cache, m.tb.pos.pos, nt.name)
                 item == CacheItem(found.cache, found.item)
                 m1 == [m EXCEPT !.cache = found.cache]
             IN  IF item.success = "s_success"
                 THEN <<Return(TRUE, item.result),
                        [m1 EXCEPT !.heap = result_assign(m.heap, f.result, item.result),
                                   !.tb = text_buffer_set_pos(m.tb, item.next_pos)]>>
                 ELSE IF item.success = "s_fail"
                 THEN <<Return(FALSE, f.result), m1>>
                 ELSE <<Goto([first EXCEPT !.cache_item = found.item]),
                        nt_stack_push(m1, nt.name)>>
        ELSE <<Goto(first), nt_stack_push(m, nt.name)>>

\* Entry: the cache is asked first; then the non-terminal is pushed.
nt_enter(f, m) ==
    LET nt == find_nt(f.non_term)
        first == [f EXCEPT !.pc = "normal", !.rule = nt.normal]
    IN  IF m.parser.cache_hit_function # "NULL"
        THEN LET found == solutions_find(m.cache, m.tb.pos.pos, nt.name)
                 item == CacheItem(found.cache, found.item)
                 m1 == [m EXCEPT !.cache = found.cache]
             IN  IF item.success = "s_success"
                 THEN <<Return(TRUE, item.result),
                        [m1 EXCEPT !.heap = result_assign(m.heap, f.result, item.result),
                                   !.tb = text_buffer_set_pos(m.tb, item.next_pos)]>>
                 ELSE IF item.success = "s_fail"
                 THEN <<Return(FALSE, f.result), m1>>
                 ELSE <<Goto([first EXCEPT !.cache_item = found.item]),
                        nt_stack_push(
                            [m1 EXCEPT !.cache = SetCacheItem(found.cache, found.item,
                                                     [item EXCEPT !.success = "s_fail"])],
                            nt.name)>>
        ELSE <<Goto(first), nt_stack_push(m, nt.name)>>

\* The loop over the normal rules: the next rule is tried, or none is left.
nt_normal(f, m) ==
    IF f.rule = 0
    THEN <<Return(FALSE, f.result), nt_stack_pop(m)>>
    ELSE <<Call([f EXCEPT !.pc = "normal_ret", !.tried = Append(@, f.rule)],
                Frame_parse_rule(Rules[f.rule].elements, 0, f.rule, f.result)), m>>

\* After a rule has succeeded the remaining rules are tried as well.
nt_normal_ret_all(f, m, r) ==
    LET f1 == [f EXCEPT !.result = r.out]
    IN  IF r.ok /\ Rules[f.rule].next = 0
        THEN <<Goto([f1 EXCEPT !.pc = "rec", !.rule = find_nt(f.non_term).recursive,
                               !.won = f.rule, !.last_result = r.out,
                               !.last_pos = m.tb.pos]), m>>
        ELSE <<Goto([f1 EXCEPT !.pc = "normal", !.rule = Rules[f.rule].next,
                               !.won = IF r.ok THEN f.rule ELSE f.won]), m>>

nt_normal_ret(f, m, r) ==
    LET f1 == [f EXCEPT !.result = r.out]
    IN  IF r.ok
        THEN <<Goto([f1 EXCEPT !.pc = "rec", !.rule = find_nt(f.non_term).recursive,
                               !.won = f.rule, !.last_result = r.out,
                               !.last_pos = m.tb.pos]), m>>
        ELSE <<Goto([f1 EXCEPT !.pc = "normal", !.rule = Rules[f.rule].next]), m>>

\* parse_nt has parsed all it can: the cache item is updated, the
\* non-terminal is popped.
nt_success(f, m) ==
    LET m1 == IF f.cache_item # NoItem
              THEN LET item == CacheItem(m.cache, f.cache_item)
                   IN [m EXCEPT
                         !.heap = result_assign(m.heap, item.result, f.result),
                         !.cache = SetCacheItem(m.cache, f.cache_item,
                                      [success |-> "s_success", result |-> f.result,
                                       next_pos |-> m.tb.pos])]
              ELSE m
        m2 == IF f.result # 0 THEN [m1 EXCEPT !.heap[f.result].returned = TRUE] ELSE m1
    IN  <<Return(TRUE, f.result), nt_stack_pop(m2)>>

\* A pass that hands the current result itself to the rule, without
\* calling a rec_start_function.
nt_rec_plain(f, m, v) ==
    IF f.rule = 0 THEN nt_success(f, m)
    ELSE <<Call([f EXCEPT !.pc = "rec_ret", !.pass = Append(@, f.rule),
                          !.start_result = f.result, !.rule_result = 0],
                Frame_parse_rule(Rules[f.rule].elements, f.result, f.rule, 0)), m>>

\* One step of a pass over the left-recursive rules.
nt_rec(f, m, v) ==
    IF f.rule = 0 THEN nt_success(f, m)
    ELSE LET rule == Rules[f.rule]
             st == IF rule.rec_start_function # "NULL"
                   THEN CallRecStart(rule.rec_start_function, v, m.heap, f.result, 0)
                   ELSE CbRet(TRUE, m.heap, 0)
             m1 == Spend(m, v)
             f1 == [f EXCEPT !.pass = Append(@, f.rule)]
         IN  IF ~st.ok
             THEN <<Goto([f1 EXCEPT !.rule = rule.next]),
                    [m1 EXCEPT !.heap = result_release(st.h, st.result)]>>
             ELSE <<Call([f1 EXCEPT !.pc = "rec_ret", !.start_result = st.result,
                                    !.rule_result = 0],
                         Frame_parse_rule(rule.elements, st.result, f.rule, 0)),
                    [m1 EXCEPT !.heap = st.h]>>

\* After a left-recursive rule has succeeded the pass goes on with the
\* rule after it.
nt_rec_ret_on(f, m, r) ==
    LET h1 == IF r.ok THEN result_assign(m.heap, f.result, r.out) ELSE m.heap
    IN  <<Goto([f EXCEPT !.pc = "rec", !.result = IF r.ok THEN r.out ELSE @,
                         !.start_result = 0, !.rule = Rules[f.rule].next,
                         !.pass = IF r.ok THEN << >> ELSE @,
                         !.last_result = IF r.ok THEN r.out ELSE @,
                         !.last_pos = IF r.ok THEN m.tb.pos ELSE @]),
          [m EXCEPT !.heap = disp_results(h1, <<r.out, f.start_result>>)]>>

nt_rec_ret(f, m, r) ==
    IF r.ok
    THEN LET h1 == result_assign(m.heap, f.result, r.out)
         IN  <<Goto([f EXCEPT !.pc = "rec", !.result = r.out, !.start_result = 0,
                              !.rule = find_nt(f.non_term).recursive,
                              !.pass = << >>, !.last_result = r.out,
                              !.last_pos = m.tb.pos]),
               [m EXCEPT !.heap = disp_results(h1, <<r.out, f.start_result>>)]>>
    ELSE <<Goto([f EXCEPT !.pc = "rec", !.start_result = 0, !.rule = Rules[f.rule].next]),
           [m EXCEPT !.heap = disp_results(m.heap, <<r.out, f.start_result>>)]>>

parse_nt_enter ==
    /\ Running("parse_nt", "enter")
    /\ LET s == nt_enter(Top, Cur) IN Apply(s[1], s[2])

parse_nt_normal ==
    /\ Running("parse_nt", "normal")
    /\ LET s == nt_normal(Top, Cur) IN Apply(s[1], s[2])

parse_nt_normal_ret ==
    /\ Running("parse_nt", "normal_ret") /\ ret.active
    /\ LET s == nt_normal_ret(Top, Cur, ret) IN Apply(s[1], s[2])

parse_nt_rec ==
    /\ Running("parse_nt", "rec")
    /\ \E v \in VetoModes(IF Top.rule = 0 THEN "NULL"
                          ELSE Rules[Top.rule].rec_start_function, vetoes) :
           LET s == nt_rec(Top, Cur, v) IN Apply(s[1], s[2])

parse_nt_rec_ret ==
    /\ Running("parse_nt", "rec_ret") /\ ret.active
    /\ LET s == nt_rec_ret(Top, Cur, ret) IN Apply(s[1], s[2])

(***************************************************************************)
(* parse_rule                                                              *)
(***************************************************************************)
\* The function called when an optional element is skipped.
SkipFunction(e) ==
    IF e.add_skip_function # "NULL" THEN e.add_skip_function ELSE e.add_function

\* Skipping the optional first element with prev_result as it is, whatever
\* functions the element has.
rule_skip_prev(f, m, v, retpc) ==
    <<Call([f EXCEPT !.pc = retpc, !.skip_result = f.prev_result, !.skipped = "tried"],
           Frame_parse_rule(Elements[f.element].next, f.prev_result, f.rule,
                            f.rule_result)),
      [m EXCEPT !.heap = result_assign(m.heap, 0, f.prev_result)]>>

\* Skipping the optional first element: skip_result is made from
\* prev_result, then the rest of the rule is parsed with it.
rule_skip(f, m, v, retpc) ==
    LET e == Elements[f.element]
        r == IF e.add_skip_function # "NULL"
             THEN CallAddSkip(e.add_skip_function, v, m.heap, f.prev_result, 0)
             ELSE IF e.add_function # "NULL"
             THEN CallAdd(e.add_function, v, m.heap, f.prev_result, 0, 0)
             ELSE CbRet(TRUE, result_assign(m.heap, 0, f.prev_result), f.prev_result)
        m1 == Spend(m, v)
    IN  IF ~r.ok
        THEN <<Return(FALSE, f.rule_result),
               [m1 EXCEPT !.heap = result_release(r.h, r.result)]>>
        ELSE <<Call([f EXCEPT !.pc = retpc, !.skip_result = r.result,
                              !.skipped = "tried"],
                    Frame_parse_rule(e.next, r.result, f.rule, f.rule_result)),
               [m1 EXCEPT !.heap = r.h]>>

\* At the end of the rule.
rule_end(f, m, v) ==
    IF f.rule = 0 \/ Rules[f.rule].end_function = "NULL"
    THEN <<Return(TRUE, f.prev_result),
           [m EXCEPT !.heap = result_assign(m.heap, f.rule_result, f.prev_result)]>>
    ELSE LET r == CallEnd(Rules[f.rule].end_function, v, m.heap, f.prev_result,
                          Rules[f.rule].end_function_data, f.rule_result)
         IN  <<Return(r.ok, r.result), [Spend(m, v) EXCEPT !.heap = r.h]>>

\* The position is stored and the first element is parsed.
rule_first(f, m) ==
    LET e == Elements[f.element]
        f1 == [f EXCEPT !.sp = m.tb.pos, !.elem_tried = TRUE]
    IN  IF e.sequence
        THEN LET b == IF e.begin_seq_function # "NULL"
                      THEN CallBeginSeq(e.begin_seq_function, m.heap, f.prev_result, 0)
                      ELSE CbRet(TRUE, m.heap, 0)
             IN  <<Call([f1 EXCEPT !.pc = "seq_first_ret", !.seq_begin = b.result,
                                   !.seq_elem = 0],
                        Frame_parse_element(f.element, b.result, 0)),
                   [m EXCEPT !.heap = b.h]>>
        ELSE <<Call([f1 EXCEPT !.pc = "elem_ret", !.elem = 0],
                    Frame_parse_element(f.element, f.prev_result, 0)), m>>

\* The function a call of parse_rule calls before anything else.
EnterFunction(f) ==
    IF f.element = 0
    THEN IF f.rule = 0 THEN "NULL" ELSE Rules[f.rule].end_function
    ELSE IF Elements[f.element].optional /\ Elements[f.element].avoid
    THEN SkipFunction(Elements[f.element])
    ELSE "NULL"

\* The first element is parsed before any attempt to skip it.
rule_enter_greedy(f, m, v) ==
    IF f.element = 0 THEN rule_end(f, m, v) ELSE rule_first(f, m)

rule_enter(f, m, v) ==
    IF f.element = 0 THEN rule_end(f, m, v)
    ELSE IF Elements[f.element].optional /\ Elements[f.element].avoid
    THEN rule_skip(f, m, v, "avoid_ret")
    ELSE rule_first(f, m)

rule_avoid_ret(f, m, r) ==
    LET m1 == [m EXCEPT !.heap = result_release(m.heap, f.skip_result)]
        f1 == [f EXCEPT !.rule_result = r.out, !.skip_result = 0, !.skipped = "failed"]
    IN  IF r.ok THEN <<Return(TRUE, r.out), m1>> ELSE rule_first(f1, m1)

rule_elem_ret(f, m, r) ==
    IF r.ok
    THEN <<Call([f EXCEPT !.pc = "elem_rest_ret", !.elem = r.out],
                Frame_parse_rule(Elements[f.element].next, r.out, f.rule, f.rule_result)),
           m>>
    ELSE <<Goto([f EXCEPT !.pc = "fail", !.elem = 0]),
           [m EXCEPT !.heap = result_release(m.heap, r.out)]>>

rule_elem_rest_ret(f, m, r) ==
    LET m1 == [m EXCEPT !.heap = result_release(m.heap, f.elem)]
        f1 == [f EXCEPT !.rule_result = r.out, !.elem = 0]
    IN  IF r.ok THEN <<Return(TRUE, r.out), m1>>
        ELSE <<Goto([f1 EXCEPT !.pc = "fail"]), m1>>

\* Failed to parse the rule: the position is reset and the rule fails,
\* optional element or not.
rule_fail_noskip(f, m, v) ==
    <<Return(FALSE, f.rule_result), [m EXCEPT !.tb = text_buffer_set_pos(m.tb, f.sp)]>>

\* Failed to parse the rule: the position is reset; an optional element
\* that is not to be avoided is skipped now.
rule_fail(f, m, v) ==
    LET m1 == [m EXCEPT !.tb = text_buffer_set_pos(m.tb, f.sp)]
    IN  IF Elements[f.element].optional /\ ~Elements[f.element].avoid
        THEN rule_skip(f, m1, v, "skip_ret")
        ELSE <<Return(FALSE, f.rule_result), m1>>

rule_skip_ret(f, m, r) ==
    <<Return(r.ok, r.out), [m EXCEPT !.heap = result_release(m.heap, f.skip_result)]>>

rule_seq_first_ret(f, m, r) ==
    LET f1 == [f EXCEPT !.seq_elem = r.out]
    IN  IF r.ok
        THEN IF Elements[f.element].back_tracking
             THEN <<Call([f1 EXCEPT !.pc = "bt_ret"],
                         Frame_parse_seq(f.element, r.out, f.prev_result, f.rule,
                                         f.rule_result)), m>>
             ELSE <<Goto([f1 EXCEPT !.pc = "loop"]), m>>
        ELSE <<Goto([f1 EXCEPT !.pc = "fail", !.seq_elem = 0, !.seq_begin = 0]),
               [m EXCEPT !.heap = disp_results(m.heap, <<r.out, f.seq_begin>>)]>>

rule_bt_ret(f, m, r) ==
    LET m1 == [m EXCEPT !.heap = disp_results(m.heap, <<f.seq_elem, f.seq_begin>>)]
        f1 == [f EXCEPT !.rule_result = r.out, !.seq_elem = 0, !.seq_begin = 0]
    IN  IF r.ok THEN <<Return(TRUE, r.out), m1>>
        ELSE <<Goto([f1 EXCEPT !.pc = "fail"]), m1>>

\* The rest of an iteration of the loop over the sequence: the position
\* is stored, the chain rule is parsed and then the next element.
rule_loop_body(f, m) ==
    LET e == Elements[f.element]
        f1 == [f EXCEPT !.sp_loop = m.tb.pos, !.next_seq_elem = 0]
    IN  IF e.chain_rule # 0
        THEN <<Call([f1 EXCEPT !.pc = "chain_ret"],
                    Frame_parse_rule(e.chain_rule, 0, 0, 0)), m>>
        ELSE <<Call([f1 EXCEPT !.pc = "next_ret"],
                    Frame_parse_element(f.element, f.seq_elem, 0)), m>>

\* The function called at the head of an iteration and after the loop.
LoopFunction(f) ==
    IF Elements[f.element].avoid THEN Elements[f.element].add_seq_function ELSE "NULL"

rule_loop(f, m, v) ==
    LET e == Elements[f.element]
    IN  IF e.avoid
        THEN LET r == IF e.add_seq_function # "NULL"
                      THEN CallAddSeq(e.add_seq_function, v, m.heap, f.prev_result,
                                      f.seq_elem, 0)
                      ELSE CbRet(TRUE, m.heap, 0)
                 m1 == [Spend(m, v) EXCEPT !.heap = r.h]
             IN  IF ~r.ok
                 THEN <<Goto([f EXCEPT !.pc = "after_loop"]), m1>>
                 ELSE <<Call([f EXCEPT !.pc = "loop_avoid_ret", !.result = r.result],
                             Frame_parse_rule(e.next, r.result, f.rule, f.rule_result)),
                        m1>>
        ELSE rule_loop_body(f, m)

rule_loop_avoid_ret(f, m, r) ==
    LET f1 == [f EXCEPT !.rule_result = r.out, !.result = 0]
    IN  IF r.ok
        THEN <<Return(TRUE, r.out),
               [m EXCEPT !.heap = disp_results(m.heap,
                                      <<f.result, f.seq_elem, f.seq_begin>>)]>>
        ELSE rule_loop_body(f1, [m EXCEPT !.heap = result_release(m.heap, f.result)])

rule_chain_ret(f, m, r) ==
    LET m1 == [m EXCEPT !.heap = result_release(m.heap, r.out)]
    IN  IF ~r.ok THEN <<Goto([f EXCEPT !.pc = "after_loop"]), m1>>
        ELSE <<Call([f EXCEPT !.pc = "next_ret"],
                    Frame_parse_element(f.element, f.seq_elem, 0)), m1>>

\* The position stays where the failed element has left it.
rule_next_ret_keep(f, m, r) ==
    IF r.ok
    THEN <<Goto([f EXCEPT !.pc = "loop", !.seq_elem = r.out]),
           [m EXCEPT !.heap = result_release(result_assign(m.heap, f.seq_elem, r.out),
                                             r.out)]>>
    ELSE <<Goto([f EXCEPT !.pc = "after_loop"]),
           [m EXCEPT !.heap = result_release(m.heap, r.out)]>>

rule_next_ret(f, m, r) ==
    IF r.ok
    THEN <<Goto([f EXCEPT !.pc = "loop", !.seq_elem = r.out]),
           [m EXCEPT !.heap = result_release(result_assign(m.heap, f.seq_elem, r.out),
                                             r.out)]>>
    ELSE <<Goto([f EXCEPT !.pc = "after_loop"]),
           [m EXCEPT !.tb = text_buffer_set_pos(m.tb, f.sp_loop),
                     !.heap = result_release(m.heap, r.out)]>>

rule_after_loop(f, m, v) ==
    LET e == Elements[f.element]
        r == IF e.add_seq_function # "NULL"
             THEN CallAddSeq(e.add_seq_function, v, m.heap, f.prev_result, f.seq_elem, 0)
             ELSE CbRet(TRUE, m.heap, 0)
        m1 == Spend(m, v)
    IN  IF ~r.ok
        THEN <<Goto([f EXCEPT !.pc = "fail", !.seq_elem = 0, !.seq_begin = 0]),
               [m1 EXCEPT !.heap = disp_results(r.h,
                                       <<r.result, f.seq_elem, f.seq_begin>>)]>>
        ELSE <<Call([f EXCEPT !.pc = "after_ret", !.result = r.result],
                    Frame_parse_rule(e.next, r.result, f.rule, f.rule_result)),
               [m1 EXCEPT !.heap = r.h]>>

rule_after_ret(f, m, r) ==
    LET m1 == [m EXCEPT !.heap = disp_results(m.heap,
                                     <<f.result, f.seq_elem, f.seq_begin>>)]
        f1 == [f EXCEPT !.rule_result = r.out, !.result = 0, !.seq_elem = 0,
                        !.seq_begin = 0]
    IN  IF r.ok THEN <<Return(TRUE, r.out), m1>>
        ELSE <<Goto([f1 EXCEPT !.pc = "fail"]), m1>>

(***************************************************************************)
(* parse_seq                                                               *)
(***************************************************************************)
\* The position is stored; the chain rule, if any, is parsed and then the
\* next element of the sequence.
seq_body(f, m) ==
    LET e == Elements[f.element]
        f1 == [f EXCEPT !.sp = m.tb.pos, !.seq_elem = 0]
    IN  IF e.chain_rule # 0
        THEN <<Call([f1 EXCEPT !.pc = "chain_ret"],
                    Frame_parse_rule(e.chain_rule, 0, 0, 0)), m>>
        ELSE <<Call([f1 EXCEPT !.pc = "elem_ret"],
                    Frame_parse_element(f.element, f.prev_seq, 0)), m>>

\* The attempt to parse the remainder of the rule after the sequence.
seq_rest(f, m, v, retpc) ==
    LET e == Elements[f.element]
        r == IF e.add_seq_function # "NULL"
             THEN CallAddSeq(e.add_seq_function, v, m.heap, f.prev, f.prev_seq, 0)
             ELSE CbRet(TRUE, m.heap, 0)
        m1 == Spend(m, v)
    IN  IF ~r.ok
        THEN <<Return(FALSE, f.rule_result),
               [m1 EXCEPT !.heap = result_release(r.h, r.result)]>>
        ELSE <<Call([f EXCEPT !.pc = retpc, !.result = r.result],
                    Frame_parse_rule(e.next, r.result, f.rule, f.rule_result)),
               [m1 EXCEPT !.heap = r.h]>>

\* A parse_seq that tries the remainder of the rule first, whether or not
\* the element has the avoid modifier.
seq_enter_avoid(f, m, v) == seq_rest(f, m, v, "avoid_ret")

seq_enter(f, m, v) ==
    IF Elements[f.element].avoid THEN seq_rest(f, m, v, "avoid_ret") ELSE seq_body(f, m)

seq_avoid_ret(f, m, r) ==
    LET m1 == [m EXCEPT !.heap = result_release(m.heap, f.result)]
        f1 == [f EXCEPT !.rule_result = r.out, !.result = 0]
    IN  IF r.ok THEN <<Return(TRUE, r.out), m1>> ELSE seq_body(f1, m1)

seq_chain_ret(f, m, r) ==
    LET m1 == [m EXCEPT !.heap = result_release(m.heap, r.out)]
    IN  IF r.ok
        THEN <<Call([f EXCEPT !.pc = "elem_ret"],
                    Frame_parse_element(f.element, f.prev_seq, 0)), m1>>
        ELSE <<Goto([f EXCEPT !.pc = "tail"]), m1>>

seq_elem_ret(f, m, r) ==
    IF r.ok
    THEN <<Call([f EXCEPT !.pc = "rec_ret", !.seq_elem = r.out],
                Frame_parse_seq(f.element, r.out, f.prev, f.rule, f.rule_result)), m>>
    ELSE <<Goto([f EXCEPT !.pc = "tail"]),
           [m EXCEPT !.heap = result_release(m.heap, r.out)]>>

seq_rec_ret(f, m, r) ==
    LET m1 == [m EXCEPT !.heap = result_release(m.heap, f.seq_elem)]
        f1 == [f EXCEPT !.rule_result = r.out, !.seq_elem = 0]
    IN  IF r.ok THEN <<Return(TRUE, r.out), m1>>
        ELSE <<Goto([f1 EXCEPT !.pc = "tail"]), m1>>

\* Failed to parse a next element: the position is reset, and without the
\* avoid modifier the remainder of the rule is tried now.
seq_tail(f, m, v) ==
    LET m1 == [m EXCEPT !.tb = text_buffer_set_pos(m.tb, f.sp)]
    IN  IF ~Elements[f.element].avoid
        THEN seq_rest(f, m1, v, "tail_ret")
        ELSE <<Return(FALSE, f.rule_result), m1>>

seq_tail_ret(f, m, r) ==
    <<Return(r.ok, r.out), [m EXCEPT !.heap = result_release(m.heap, f.result)]>>

(***************************************************************************)
(* parse_element                                                           *)
(***************************************************************************)
\* After the switch: the position is set on the result.
element_done(f, m, h, result) ==
    LET e == Elements[f.element]
        r == IF e.set_pos # "NULL" THEN CallSetPos(e.set_pos, h, result, f.sp)
             ELSE CbRet(TRUE, h, result)
    IN  <<Return(TRUE, r.result), [m EXCEPT !.heap = r.h]>>

\* rk_char and rk_charset, once the byte under the cursor has matched.
element_char(f, m, v, ch) ==
    LET e == Elements[f.element]
        m1 == [Spend(m, v) EXCEPT !.tb = text_buffer_next(m.tb, input)]
    IN  IF e.add_char_function = "NULL"
        THEN element_done(f, m1, result_assign(m.heap, f.result, f.prev_result),
                          f.prev_result)
        ELSE LET r == CallAddChar(e.add_char_function, v, m.heap, f.prev_result, ch,
                                  f.result)
             IN  IF ~r.ok THEN <<Return(FALSE, r.result), [m1 EXCEPT !.heap = r.h]>>
                 ELSE element_done(f, m1, r.h, r.result)

\* rk_grouping: the next rule of the grouping is tried, or none is left.
element_grp(f, m) ==
    IF f.rule = 0
    THEN <<Return(FALSE, f.result),
           [m EXCEPT !.heap = result_release(m.heap, f.rule_result)]>>
    ELSE <<Call([f EXCEPT !.pc = "grp_ret", !.tried = Append(@, f.rule)],
                Frame_parse_rule(Rules[f.rule].elements, f.prev_result, f.rule,
                                 f.rule_result)),
           [m EXCEPT !.heap = result_assign(m.heap, 0, f.prev_result)]>>

\* rk_term: while (text_buffer->info < next_pos) text_buffer_next(...), one
\* iteration at a time; then the position is set on the result.
element_term(f, m) ==
    IF m.tb.info < f.next_pos
    THEN <<Goto(f), [m EXCEPT !.tb = text_buffer_next(m.tb, input)]>>
    ELSE element_done(f, m, m.heap, f.result)

\* next_pos is what the terminal function of an rk_term element returns:
\* a pointer into the text, as the offset of the byte it points at.
element_enter(f, m, v, next_pos) ==
    LET e == Elements[f.element]
        f1 == [f EXCEPT !.sp = m.tb.pos]
        c == CharAt(input, m.tb.info)
        failed == <<Return(FALSE, f.result), expect_element(m, f.element)>>
    IN  CASE e.kind = "rk_nt" ->
               <<Call([f1 EXCEPT !.pc = "nt_ret"], Frame_parse_nt(e.non_terminal, 0)), m>>
          [] e.kind = "rk_grouping" ->
               element_grp([f1 EXCEPT !.rule = e.rules, !.rule_result = 0], m)
          [] e.kind = "rk_end" ->
               IF ~text_buffer_end(m.tb) THEN failed
               ELSE element_done(f1, m, result_assign(m.heap, f.result, f.prev_result),
                                 f.prev_result)
          [] e.kind = "rk_char" ->
               IF c # e.ch THEN failed ELSE element_char(f1, m, v, e.ch)
          [] e.kind = "rk_charset" ->
               IF c \notin e.char_set THEN failed ELSE element_char(f1, m, v, c)
          [] e.kind = "rk_term" ->
               IF next_pos <= m.tb.info THEN failed
               ELSE <<Goto([f1 EXCEPT !.pc = "term", !.next_pos = next_pos]), m>>
          [] OTHER -> <<Return(FALSE, f.result), m>>

\* Without add_function the parsed result is the output, for every kind.
element_add_parsed(f, m, v, parsed) ==
    LET e == Elements[f.element]
        m1 == Spend(m, v)
    IN  IF e.add_function = "NULL"
        THEN element_done(f, m1, result_assign(m.heap, f.result, parsed), parsed)
        ELSE LET r == CallAdd(e.add_function, v, m.heap, f.prev_result, parsed, f.result)
             IN  IF ~r.ok
                 THEN <<Return(FALSE, r.result),
                        [m1 EXCEPT !.heap = result_release(r.h, parsed),
                                   !.tb = text_buffer_set_pos(m.tb, f.sp)]>>
                 ELSE element_done(f, m1, result_release(r.h, parsed), r.result)

\* Combine the result of the non-terminal or grouping with the previous
\* result.
element_add(f, m, v, parsed) ==
    LET e == Elements[f.element]
        m1 == Spend(m, v)
    IN  IF e.add_function = "NULL"
        THEN LET src == IF e.kind = "rk_nt" THEN f.prev_result ELSE parsed
                 h1 == result_assign(m.heap, f.result, src)
             IN  element_done(f, m1, result_release(h1, parsed), src)
        ELSE LET r == CallAdd(e.add_function, v, m.heap, f.prev_result, parsed, f.result)
             IN  IF ~r.ok
                 THEN <<Return(FALSE, r.result),
                        [m1 EXCEPT !.heap = result_release(r.h, parsed),
                                   !.tb = text_buffer_set_pos(m.tb, f.sp)]>>
                 ELSE element_done(f, m1, result_release(r.h, parsed), r.result)

\* The result of the non-terminal is added whatever the condition says.
element_nt_ret_nocond(f, m, r, vc, v) ==
    IF ~r.ok
    THEN <<Return(FALSE, f.result), [m EXCEPT !.heap = result_release(m.heap, r.out)]>>
    ELSE element_add(f, m, v, r.out)

element_nt_ret(f, m, r, vc, v) ==
    LET e == Elements[f.element]
    IN  IF ~r.ok
        THEN <<Return(FALSE, f.result),
               [m EXCEPT !.heap = result_release(m.heap, r.out)]>>
        ELSE IF e.condition # "NULL"
                /\ ~CallCondition(e.condition, vc, m.heap, r.out, e.condition_argument)
        THEN <<Return(FALSE, f.result),
               [Spend(m, vc) EXCEPT !.heap = result_release(m.heap, r.out),
                                    !.tb = text_buffer_set_pos(m.tb, f.sp)]>>
        ELSE element_add(f, m, v, r.out)

element_grp_ret(f, m, r, v) ==
    LET m1 == [m EXCEPT !.heap = result_release(m.heap, f.prev_result)]
        f1 == [f EXCEPT !.rule_result = r.out, !.won = IF r.ok THEN f.rule ELSE 0]
    IN  IF r.ok THEN element_add(f1, m1, v, r.out)
        ELSE element_grp([f1 EXCEPT !.rule = Rules[f.rule].next], m1)

(***************************************************************************)
(* The steps of parse_rule, parse_seq and parse_element as actions.        *)
(***************************************************************************)
parse_rule_enter ==
    /\ Running("parse_rule", "enter")
    /\ \E v \in VetoModes(EnterFunction(Top), vetoes) :
           LET s == rule_enter(Top, Cur, v) IN Apply(s[1], s[2])

parse_rule_avoid_ret ==
    /\ Running("parse_rule", "avoid_ret") /\ ret.active
    /\ LET s == rule_avoid_ret(Top, Cur, ret) IN Apply(s[1], s[2])

parse_rule_elem_ret ==
    /\ Running("parse_rule", "elem_ret") /\ ret.active
    /\ LET s == rule_elem_ret(Top, Cur, ret) IN Apply(s[1], s[2])

parse_rule_elem_rest_ret ==
    /\ Running("parse_rule", "elem_rest_ret") /\ ret.active
    /\ LET s == rule_elem_rest_ret(Top, Cur, ret) IN Apply(s[1], s[2])

parse_rule_fail ==
    /\ Running("parse_rule", "fail")
    /\ \E v \in VetoModes(IF Elements[Top.element].optional /\ ~Elements[Top.element].avoid
                          THEN SkipFunction(Elements[Top.element]) ELSE "NULL",
                          vetoes) :
           LET s == rule_fail(Top, Cur, v) IN Apply(s[1], s[2])

parse_rule_skip_ret ==
    /\ Running("parse_rule", "skip_ret") /\ ret.active
    /\ LET s == rule_skip_ret(Top, Cur, ret) IN Apply(s[1], s[2])

parse_rule_seq_first_ret ==
    /\ Running("parse_rule", "seq_first_ret") /\ ret.active
    /\ LET s == rule_seq_first_ret(Top, Cur, ret) IN Apply(s[1], s[2])

parse_rule_bt_ret ==
    /\ Running("parse_rule", "bt_ret") /\ ret.active
    /\ LET s == rule_bt_ret(Top, Cur, ret) IN Apply(s[1], s[2])

parse_rule_loop ==
    /\ Running("parse_rule", "loop")
    /\ \E v \in VetoModes(LoopFunction(Top), vetoes) :
           LET s == rule_loop(Top, Cur, v) IN Apply(s[1], s[2])

parse_rule_loop_avoid_ret ==
    /\ Running("parse_rule", "loop_avoid_ret") /\ ret.active
    /\ LET s == rule_loop_avoid_ret(Top, Cur, ret) IN Apply(s[1], s[2])

parse_rule_chain_ret ==
    /\ Running("parse_rule", "chain_ret") /\ ret.active
    /\ LET s == rule_chain_ret(Top, Cur, ret) IN Apply(s[1], s[2])

parse_rule_next_ret ==
    /\ Running("parse_rule", "next_ret") /\ ret.active
    /\ LET s == rule_next_ret(Top, Cur, ret) IN Apply(s[1], s[2])

parse_rule_after_loop ==
    /\ Running("parse_rule", "after_loop")
    /\ \E v \in VetoModes(Elements[Top.element].add_seq_function, vetoes) :
           LET s == rule_after_loop(Top, Cur, v) IN Apply(s[1], s[2])

parse_rule_after_ret ==
    /\ Running("parse_rule", "after_ret") /\ ret.active
    /\ LET s == rule_after_ret(Top, Cur, ret) IN Apply(s[1], s[2])

parse_seq_enter ==
    /\ Running("parse_seq", "enter")
    /\ \E v \in VetoModes(LoopFunction(Top), vetoes) :
           LET s == seq_enter(Top, Cur, v) IN Apply(s[1], s[2])

parse_seq_avoid_ret ==
    /\ Running("parse_seq", "avoid_ret") /\ ret.active
    /\ LET s == seq_avoid_ret(Top, Cur, ret) IN Apply(s[1], s[2])

parse_seq_chain_ret ==
    /\ Running("parse_seq", "chain_ret") /\ ret.active
    /\ LET s == seq_chain_ret(Top, Cur, ret) IN Apply(s[1], s[2])

parse_seq_elem_ret ==
    /\ Running("parse_seq", "elem_ret") /\ ret.active
    /\ LET s == seq_elem_ret(Top, Cur, ret) IN Apply(s[1], s[2])

parse_seq_rec_ret ==
    /\ Running("parse_seq", "rec_ret") /\ ret.active
    /\ LET s == seq_rec_ret(Top, Cur, ret) IN Apply(s[1], s[2])

parse_seq_tail ==
    /\ Running("parse_seq", "tail")
    /\ \E v \in VetoModes(IF Elements[Top.element].avoid THEN "NULL"
                          ELSE Elements[Top.element].add_seq_function, vetoes) :
           LET s == seq_tail(Top, Cur, v) IN Apply(s[1], s[2])

parse_seq_tail_ret ==
    /\ Running("parse_seq", "tail_ret") /\ ret.active
    /\ LET s == seq_tail_ret(Top, Cur, ret) IN Apply(s[1], s[2])

\* What a terminal function can return for a text: a pointer to one of its
\* bytes, to its terminating 0 or one past it.
TerminalReturns(e) == IF Elements[e].kind = "rk_term" THEN 0..(Len(input) + 1) ELSE {0}

parse_element_enter ==
    /\ Running("parse_element", "enter")
    /\ \E v \in VetoModes(Elements[Top.element].add_char_function, vetoes),
          next_pos \in TerminalReturns(Top.element) :
           LET s == element_enter(Top, Cur, v, next_pos) IN Apply(s[1], s[2])

parse_element_term ==
    /\ Running("parse_element", "term")
    /\ LET s == element_term(Top, Cur) IN Apply(s[1], s[2])

parse_element_nt_ret ==
    /\ Running("parse_element", "nt_ret") /\ ret.active
    /\ \E vc \in VetoModes(Elements[Top.element].condition, vetoes) \ {"write_veto"},
          v \in VetoModes(Elements[Top.element].add_function, vetoes) :
           /\ vc = "ok" \/ v = "ok"
           /\ LET s == element_nt_ret(Top, Cur, ret, vc, v) IN Apply(s[1], s[2])

parse_element_grp_ret ==
    /\ Running("parse_element", "grp_ret") /\ ret.active
    /\ \E v \in VetoModes(Elements[Top.element].add_function, vetoes) :
           LET s == element_grp_ret(Top, Cur, ret, v) IN Apply(s[1], s[2])

(***************************************************************************)
(* The caller (test_parse_grammar): it parses startNT from the start of    *)
(* the input, then disposes its result and frees the cache.                *)
(***************************************************************************)
CacheFunctions == {"NULL", "solutions_find"}

\* The units before their first call.
(***************************************************************************)
(* Character sets: a bit vector of 32 bytes.                               *)
(***************************************************************************)
\* (b >> k) & 1 of a byte b
bit(b, k) == (b \div 2^k) % 2

new_char_set == [i \in 0..31 |-> 0]

char_set_contains(bitvec, ch) == bit(bitvec[ch \div 8], ch % 8) # 0

char_set_add_char(bitvec, ch) ==
    [bitvec EXCEPT ![ch \div 8] = IF bit(@, ch % 8) = 1 THEN @ ELSE @ + 2^(ch % 8)]

char_set_remove_char(bitvec, ch) ==
    [bitvec EXCEPT ![ch \div 8] = IF bit(@, ch % 8) = 1 THEN @ - 2^(ch % 8) ELSE @]

UnitsIdle ==
    /\ char_set = [bitvec |-> new_char_set, members |-> {}, calls |-> 0, pc |-> "idle",
                   first |-> 0, last |-> 0, ch |-> 0]
    /\ saved = {}
    /\ hash_tree = [root |-> 0, nodes |-> << >>]
    /\ keyword_state = 0
    /\ interned = [calls |-> << >>, written |-> {}]

\* The state in which parse_nt is called, with cache function c and v
\* vetoes counted as cast.
SetupFor(c, v, nts, texts) ==
    /\ all_nt = Grammar
    /\ input \in texts
    /\ startNT \in nts
    /\ tb = text_buffer_assign_string(input)
    /\ cache = solutions_init(tb)
    /\ parser = [nt_stack |-> 0, cache_hit_function |-> c]
    /\ heap = << >>
    /\ ntmem = [nodes |-> << >>, allocated |-> 0]
    /\ ex = [highest_pos |-> NoPos, expected |-> << >>]
    /\ stack = <<[Frame_parse_nt(startNT, 0) EXCEPT !.entry = tb.pos]>>
    /\ ret = NoRet
    /\ vetoes = v
    /\ phase = "parsing"
    /\ fresh = [n \in DOMAIN NonTerminals |-> [o \in 0..Len(input) |-> NoFresh]]
    /\ UnitsIdle

Setup(c, v) == SetupFor(c, v, StartNTs, Inputs) /\ uninit = 0

Init == \E c \in CacheFunctions : Setup(c, 0)

test_parse_grammar_release ==
    /\ phase = "parsing"
    /\ stack = << >>
    /\ heap' = solutions_free(result_release(heap, ret.out), cache, 0)
    /\ phase' = "released"
    /\ UNCHANGED <<input, startNT, tb, parser, cache, ntmem, ex, stack, ret, vetoes,
                   fresh, units>>

Next ==
    \/ parse_nt_enter \/ parse_nt_normal \/ parse_nt_normal_ret
    \/ parse_nt_rec \/ parse_nt_rec_ret
    \/ parse_rule_enter \/ parse_rule_avoid_ret \/ parse_rule_elem_ret
    \/ parse_rule_elem_rest_ret \/ parse_rule_fail \/ parse_rule_skip_ret
    \/ parse_rule_seq_first_ret \/ parse_rule_bt_ret \/ parse_rule_loop
    \/ parse_rule_loop_avoid_ret \/ parse_rule_chain_ret \/ parse_rule_next_ret
    \/ parse_rule_after_loop \/ parse_rule_after_ret
    \/ parse_seq_enter \/ parse_seq_avoid_ret \/ parse_seq_chain_ret
    \/ parse_seq_elem_ret \/ parse_seq_rec_ret \/ parse_seq_tail \/ parse_seq_tail_ret
    \/ parse_element_enter \/ parse_element_nt_ret \/ parse_element_grp_ret
    \/ test_parse_grammar_release

Spec == Init /\ [][Next]_vars

\* The parser is one thread that runs on until test_parse_grammar is done.
FairSpec == Spec /\ WF_vars(Next)

(***************************************************************************)
(* The same parse twice: first without a cache and with callbacks that do  *)
(* what the grammar's functions do, then again, in a fresh run, with the   *)
(* brute force cache.                                                      *)
(***************************************************************************)
\* No callback casts a veto here: the count starts at its limit.
InitCmp == Setup("NULL", MaxVeto)

Restart ==
    /\ phase = "released"
    /\ parser.cache_hit_function = "NULL"
    /\ tb' = text_buffer_assign_string(input)
    /\ cache' = solutions_init(tb')
    /\ parser' = [nt_stack |-> 0, cache_hit_function |-> "solutions_find"]
    /\ heap' = << >>
    /\ ntmem' = [nodes |-> << >>, allocated |-> 0]
    /\ ex' = [highest_pos |-> NoPos, expected |-> << >>]
    /\ stack' = <<[Frame_parse_nt(startNT, 0) EXCEPT !.entry = tb'.pos]>>
    /\ ret' = NoRet
    /\ phase' = "parsing"
    /\ UNCHANGED <<input, startNT, vetoes, fresh, units>>

NextCmp == Next \/ Restart

SpecCmp == InitCmp /\ [][NextCmp]_vars

(***************************************************************************)
(* The text buffer on its own: a caller that assigns a string, steps       *)
(* through it, copies the position (text_pos_t sp = text_buffer->pos) and  *)
(* goes back to a position it has copied, as the parse functions do.       *)
(***************************************************************************)
Texts == SeqsUpTo({chr.a, chr.tab, chr.nl}, MaxLen)

\* No parse is going on.
Idle ==
    /\ all_nt = Grammar
    /\ startNT = "NULL"
    /\ parser = [nt_stack |-> 0, cache_hit_function |-> "NULL"]
    /\ cache = solutions_init(text_buffer_assign_string(<< >>))
    /\ heap = << >>
    /\ ntmem = [nodes |-> << >>, allocated |-> 0]
    /\ ex = [highest_pos |-> NoPos, expected |-> << >>]
    /\ stack = << >>
    /\ ret = NoRet
    /\ vetoes = 0
    /\ phase = "idle"
    /\ fresh = << >>

parse_vars == <<all_nt, startNT, parser, cache, heap, ntmem, ex, stack, ret, vetoes, phase, fresh>>

ident_vars == <<hash_tree, keyword_state, interned>>

InitTB ==
    /\ Idle
    /\ uninit = 0
    /\ input \in Texts
    /\ tb = text_buffer_assign_string(input)
    /\ UnitsIdle

tb_assign_string ==
    /\ \E text \in Texts :
           /\ input' = text
           /\ tb' = text_buffer_assign_string(text)
    /\ saved' = {}
    /\ UNCHANGED <<parse_vars, char_set, uninit, ident_vars>>

tb_next ==
    /\ tb' = text_buffer_next(tb, input)
    /\ UNCHANGED <<input, saved, parse_vars, char_set, uninit, ident_vars>>

tb_save ==
    /\ saved' = saved \cup {tb.pos}
    /\ UNCHANGED <<input, tb, parse_vars, char_set, uninit, ident_vars>>

tb_set_pos ==
    /\ \E sp \in saved : tb' = text_buffer_set_pos(tb, sp)
    /\ UNCHANGED <<input, saved, parse_vars, char_set, uninit, ident_vars>>

NextTB == tb_assign_string \/ tb_next \/ tb_save \/ tb_set_pos

SpecTB == InitTB /\ [][NextTB]_vars

(***************************************************************************)
(* The hexadecimal hash tree (ident_string, keyword_state).  A node is     *)
(* either a leaf with a state below 255 and its string, or an inner node   *)
(* with state 255 and 16 children.  The pointer ident_string returns is    *)
(* the string of a leaf, the pointer in keyword_state is the state of that *)
(* leaf: both are kept as the number of the leaf.                          *)
(***************************************************************************)
\* (unsigned short)*vs for a char that is signed.
ushort(c) == IF c >= 128 THEN c + 65280 ELSE c

\* hexa_hash_tree_p *r_node: &hash_tree, or &node->data.children[v].
RNode(node, v) == [node |-> node, v |-> v]

\* The loop of ident_string from iteration `depth` on: the tree afterwards,
\* keyword_state and the string returned.
RECURSIVE ident_string_from(_, _, _, _, _, _)
ident_string_from(t, s, r_node, depth, vs, mode) ==
    LET node == IF r_node.node = 0 THEN t.root
                ELSE t.nodes[r_node.node].children[r_node.v]
        new == Len(t.nodes) + 1
        store(id) == IF r_node.node = 0 THEN [t EXCEPT !.root = id]
                     ELSE [t EXCEPT !.nodes[r_node.node].children[r_node.v] = id]
        down(t1, inner) ==
            LET c == CharAt(s, vs)
                v == IF c = 0 THEN 0
                     ELSE IF mode = 0 THEN ushort(c) % 16
                     ELSE ushort(c) \div 16
            IN  ident_string_from(t1, s, RNode(inner, v), depth + 1,
                                  IF c = 0 THEN (IF mode = 0 THEN 0 ELSE vs) ELSE vs + 1,
                                  IF c = 0 THEN 1 ELSE mode)
    IN  IF node = 0
        THEN [hash_tree |-> [store(new) EXCEPT !.nodes =
                                Append(@, [state |-> 0, string |-> s, children |-> << >>])],
              keyword_state |-> new, string |-> new]
        ELSE IF t.nodes[node].state # 255
        THEN LET cs == t.nodes[node].string
                 i == Len(cs)
                 v == IF depth <= i THEN CharAt(cs, depth) % 16
                      ELSE IF depth <= i * 2 THEN CharAt(cs, depth - i - 1) \div 16
                      ELSE 0
                 inner == [state |-> 255, string |-> << >>,
                           children |-> [k \in 0..15 |-> IF k = v THEN node ELSE 0]]
             IN  IF cs = s
                 THEN [hash_tree |-> t, keyword_state |-> node, string |-> node]
                 ELSE down([store(new) EXCEPT !.nodes = Append(@, inner)], new)
        ELSE down(t, node)

\* The string at the root is returned for every s, once there is one.
ident_string_root(t, s) ==
    IF t.root = 0 THEN ident_string_from(t, s, RNode(0, 0), 0, 0, 0)
    ELSE [hash_tree |-> t, keyword_state |-> t.root, string |-> t.root]

ident_string(t, s) == ident_string_from(t, s, RNode(0, 0), 0, 0, 0)

\* The strings interned: identifiers of the grammars, over letters that
\* share the low nibble (a, q), the high nibble (a, b) or have the low
\* nibble 0 (p).
Idents ==
    LET q == 113
        p == 112
    IN  {<<chr.a>>, <<q>>, <<chr.b>>, <<p>>, <<chr.a, chr.a>>, <<chr.a, q>>,
         <<q, chr.a>>, <<p, p>>, <<chr.a, p>>, <<p, chr.a>>, <<chr.a, chr.a, q>>}

MaxCalls == 3

InitIdent ==
    /\ Idle
    /\ uninit = 0
    /\ input = << >>
    /\ tb = text_buffer_assign_string(input)
    /\ UnitsIdle

\* name = ident_string(s), as create_ident_tree and KEYWORD call it.
ident_string_call ==
    /\ Len(interned.calls) < MaxCalls
    /\ \E s \in Idents :
           LET r == ident_string(hash_tree, s)
           IN  /\ hash_tree' = r.hash_tree
               /\ keyword_state' = r.keyword_state
               /\ interned' = [interned EXCEPT
                      !.calls = Append(@, [s |-> s, string |-> r.string,
                                           keyword_state |-> r.keyword_state,
                                           state |-> r.hash_tree.nodes[r.keyword_state].state,
                                           first |-> \A i \in 1..Len(interned.calls) :
                                                         interned.calls[i].s # s])]
    /\ UNCHANGED <<input, tb, saved, parse_vars, char_set, uninit>>

\* *keyword_state = 1, as KEYWORD does after ident_string(K).
keyword_state_write ==
    /\ keyword_state # 0
    /\ hash_tree' = [hash_tree EXCEPT !.nodes[keyword_state].state = 1]
    /\ interned' = [interned EXCEPT
           !.written = @ \cup {interned.calls[Len(interned.calls)].s}]
    /\ UNCHANGED <<input, tb, saved, keyword_state, parse_vars, char_set, uninit>>

NextIdent == ident_string_call \/ keyword_state_write

SpecIdent == InitIdent /\ [][NextIdent]_vars

(***************************************************************************)
(* Properties.                                                             *)
(***************************************************************************)
\* A call of one of the functions fns has just returned failure.
FailedReturn(fns) == ret.active /\ ret.fn \in fns /\ ~ret.ok

\* C1: whenever parse_rule or parse_seq returns failure, the position of the
\* text buffer (offset, line, column) and its cursor are what they were at
\* entry to that call, whatever the callbacks returned.
C1_RuleSeqRollback ==
    FailedReturn({"parse_rule", "parse_seq"}) =>
        (tb.pos = ret.entry /\ tb.info = ret.entry.pos)

\* C1 witness: a parse_seq call fails after a callback has cast a veto, and
\* its last step moved the cursor back to the entry position.
C1_Witness ==
    /\ FailedReturn({"parse_seq"})
    /\ vetoes > 0
    /\ ret.before.pos > ret.entry.pos
    /\ tb.pos = ret.entry

\* C2: whenever parse_element returns failure, the position of the text
\* buffer is what it was at entry to parse_element, also when an add_char,
\* add or condition callback returned false after input was consumed.
C2_ElementRollback ==
    FailedReturn({"parse_element"}) => tb.pos = ret.entry

\* C3: a call of parse_nt with the brute force cache returns the success
\* flag, the result and the end position (offset, line, column) that the
\* call of parse_nt for the same non-terminal at the same offset returned
\* without a cache; a cache hit is one such return.  (The result is looked
\* at while the caller still holds it.)
SameAsFresh ==
    LET f == fresh[ret.nt][ret.entry.pos]
    IN  /\ ret.ok = f.ok
        /\ tb.pos = f.pos
        /\ ret.ok => ValueOf(heap, ret.out) = f.value

\* A call of parse_nt with the cache has just returned, and what the call
\* without a cache returned for the same non-terminal and offset is known.
CachedReturn ==
    /\ phase = "parsing"
    /\ ret.active
    /\ ret.fn = "parse_nt"
    /\ parser.cache_hit_function # "NULL"
    /\ fresh[ret.nt][ret.entry.pos].known

C3_CacheFidelity_AsStated == CachedReturn => SameAsFresh

\* C3 as it holds: the same, for parses in which no callback has modified
\* in place a payload that a call of parse_nt had returned as its result.
C3_CacheFidelity ==
    (CachedReturn /\ \A p \in DOMAIN heap : ~heap[p].touched) => SameAsFresh

\* C3 witness: a cache hit replays a successful parse that consumed input
\* and built a result, and the cache-less parse is known.
C3_Witness ==
    /\ CachedReturn
    /\ ret.pc = "enter"
    /\ ret.ok
    /\ ret.out # 0
    /\ tb.pos.pos > ret.entry.pos
    /\ \A p \in DOMAIN heap : ~heap[p].touched

\* The rules of a rule list in the order of declaration.
RECURSIVE RuleList(_)
RuleList(rule) == IF rule = 0 THEN << >> ELSE <<rule>> \o RuleList(Rules[rule].next)

IsPrefix(t, list) == Len(t) <= Len(list) /\ \A k \in 1..Len(t) : t[k] = list[k]

\* The rule list that the call with frame F goes through, if it has one.
Alternatives(F) ==
    IF F.fn = "parse_nt" THEN RuleList(find_nt(F.non_term).normal)
    ELSE IF F.fn = "parse_element" /\ Elements[F.element].kind = "rk_grouping"
    THEN RuleList(Elements[F.element].rules)
    ELSE << >>

\* The rule that frame F is trying is run by the call G above it as the
\* claim says: parse_nt gives it the entry position and an empty start
\* result, a grouping gives it the previous result.
TriesAsDeclared(F, G) ==
    /\ G.fn = "parse_rule"
    /\ G.rule = F.tried[Len(F.tried)]
    /\ G.element = Rules[G.rule].elements
    /\ IF F.fn = "parse_nt"
       THEN G.prev_result = 0 /\ G.entry = F.entry
       ELSE G.prev_result = F.prev_result

\* C4: the alternatives of a list are tried strictly in declaration order
\* and the first success is committed: the rules tried so far are a prefix
\* of the list, a rule that succeeded is the last one tried, parse_nt tries
\* each normal rule from its entry position with an empty start result and
\* parse_element tries each rule of a grouping with the previous result.
C4_FirstMatch ==
    \A i \in 1..Len(stack) :
        LET F == stack[i]
        IN  F.fn \in {"parse_nt", "parse_element"} =>
                /\ IsPrefix(F.tried, Alternatives(F))
                /\ F.won # 0 => F.won = F.tried[Len(F.tried)]
                /\ (F.pc \in {"normal_ret", "grp_ret"} /\ i < Len(stack)) =>
                       TriesAsDeclared(F, stack[i + 1])

\* C4 witness: the first normal rule of a non-terminal has failed, and in
\* its second rule the second alternative of a grouping has just succeeded
\* after the first had failed.
C4_Witness ==
    \E i, j \in 1..Len(stack) :
        /\ stack[i].fn = "parse_nt" /\ Len(stack[i].tried) = 2
        /\ stack[j].fn = "parse_element" /\ Len(stack[j].tried) = 2
        /\ stack[j].pc = "grp_ret" /\ ret.active /\ ret.ok /\ j = Len(stack)

\* The left-recursive rules of the non-terminal of frame F, in order.
RecList(F) == RuleList(find_nt(F.non_term).recursive)

\* C5: after a normal rule has succeeded parse_nt makes passes over the
\* left-recursive rules in declaration order; a rule that succeeds replaces
\* the result and the next pass starts at the first left-recursive rule;
\* when a full pass has matched no rule parse_nt returns success with the
\* result and the position that the last successful rule left.
C5_LeftRecursivePasses ==
    /\ \A i \in 1..Len(stack) :
           LET F == stack[i]
           IN  (F.fn = "parse_nt" /\ F.pc \in {"rec", "rec_ret"}) =>
                   /\ F.won # 0
                   /\ IsPrefix(F.pass, RecList(F))
                   /\ F.result = F.last_result
                   /\ F.pc = "rec_ret" => F.rule = F.pass[Len(F.pass)]
                   /\ (F.pc = "rec" /\ F.rule # 0) =>
                          F.rule = RecList(F)[Len(F.pass) + 1]
                   /\ (F.pc = "rec" /\ F.rule = 0) => F.pass = RecList(F)
                   /\ (F.pc = "rec" /\ i = Len(stack)) => tb.pos = F.last_pos
    /\ (ret.active /\ ret.fn = "parse_nt" /\ ret.pc = "rec") =>
           /\ ret.ok
           /\ ret.frame.pass = RecList(ret.frame)
           /\ ret.out = ret.frame.last_result
           /\ tb.pos = ret.frame.last_pos

\* C5 witness: parse_nt returns after the second left-recursive rule has
\* succeeded and consumed input and the pass after it, over both rules, has
\* matched no rule.
C5_Witness ==
    /\ phase = "parsing"
    /\ ret.active /\ ret.fn = "parse_nt" /\ ret.pc = "rec" /\ ret.ok
    /\ Len(ret.frame.pass) = 2
    /\ ret.frame.last_pos.pos > ret.entry.pos + 1
    /\ ret.out # 0
    /\ heap[ret.out].type_name = "post"

\* A call of parse_nt is in its loop over the left-recursive rules.
InRecursiveLoop ==
    \E i \in 1..Len(stack) : stack[i].fn = "parse_nt" /\ stack[i].pc \in {"rec", "rec_ret"}

\* C6: the left-recursive loop of parse_nt terminates for every grammar and
\* input, also when a left-recursive iteration succeeds without consuming a
\* byte: a parse that is in the loop gets out of it.
C6_LeftRecursionTerminates == InRecursiveLoop ~> ~InRecursiveLoop

\* The first element of the rule that frame F parses is optional and to be
\* avoided.
AvoidsFirst(F) ==
    /\ F.fn = "parse_rule"
    /\ F.element # 0
    /\ Elements[F.element].optional
    /\ Elements[F.element].avoid

\* The element is parsed only after a skip attempt has failed, and a skip
\* attempt is a call of parse_rule for the rest of the rule at the position
\* where the rule was entered.
SkipBeforeElement ==
    /\ \A i \in 1..Len(stack) :
           AvoidsFirst(stack[i]) =>
               /\ stack[i].elem_tried => stack[i].skipped = "failed"
               /\ stack[i].pc # "enter" => stack[i].skipped # "no"
               /\ (stack[i].pc = "avoid_ret" /\ i < Len(stack)) =>
                      /\ stack[i + 1].fn = "parse_rule"
                      /\ stack[i + 1].element = Elements[stack[i].element].next
                      /\ stack[i + 1].entry = stack[i].entry
               /\ (stack[i].pc = "avoid_ret" /\ i = Len(stack) /\ ret.active /\ ret.ok) =>
                      ~stack[i].elem_tried
    /\ (ret.active /\ AvoidsFirst(ret.frame) /\ ret.pc = "avoid_ret") =>
           /\ ret.ok
           /\ ~ret.frame.elem_tried
           /\ tb.pos = ret.before

\* When the skip attempt has succeeded, the next step of parse_rule is its
\* successful return, at the position where the rest of the rule ended.
SkipSuccessReturns ==
    (/\ Len(stack) > 0 /\ AvoidsFirst(Top) /\ Top.pc = "avoid_ret"
     /\ ret.active /\ ret.ok) =>
        /\ stack' = SubSeq(stack, 1, Len(stack) - 1)
        /\ ret'.active /\ ret'.ok /\ ret'.fn = "parse_rule"
        /\ ret'.out = ret.out
        /\ tb' = tb

\* C7: if the first element of a (remaining) rule is optional and has
\* avoid, the skip attempt is made before any attempt to parse the element,
\* and whenever the rest of the rule succeeds with the element absent,
\* parse_rule succeeds at the position where the rest ended, without having
\* parsed the element.
C7_AvoidSkipsFirst == []SkipBeforeElement /\ [][SkipSuccessReturns]_vars

\* C7 witness: the element could have been parsed at the current position,
\* but the rest of the rule succeeded without it and parse_rule returns
\* success from the skip attempt.
C7_Witness ==
    /\ ret.active /\ AvoidsFirst(ret.frame) /\ ret.pc = "avoid_ret" /\ ret.ok
    /\ Elements[ret.frame.element].kind = "rk_charset"
    /\ CharAt(input, ret.entry.pos) \in Elements[ret.frame.element].char_set
    /\ tb.pos.pos > ret.entry.pos

\* C8: once the caller has released the top-level result and the cache has
\* been torn down with solutions_free, every payload allocated during the
\* parse has as many decrements as increments (the initial count of 1
\* counted), on every path, and no count is ever decremented below zero.
C8_ReferenceBalance ==
    /\ \A p \in DOMAIN heap : heap[p].cnt >= 0
    /\ phase = "released" => \A p \in DOMAIN heap : heap[p].incs = heap[p].decs

\* A call of parse_nt that found its cache item in state unknown has just
\* returned.
OwnerReturned ==
    /\ phase = "parsing"
    /\ ret.active /\ ret.fn = "parse_nt"
    /\ ret.frame.cache_item # NoItem

\* C9: with a cache, when a parse_nt call that found its cache item unknown
\* returns, the item is fail if the call returned false, and success with
\* the returned result and the buffer position at return if it returned true.
C9_CacheItemWritten ==
    OwnerReturned =>
        LET item == CacheItem(cache, ret.frame.cache_item)
        IN  /\ ret.frame.cache_item.nt = ret.frame.non_term
            /\ ret.frame.cache_item.pos = ret.entry.pos
            /\ IF ret.ok
               THEN /\ item.success = "s_success"
                    /\ item.result = ret.out
                    /\ item.next_pos = tb.pos
               ELSE item.success = "s_fail"

\* C9 witness: the owner of an item returns a result after it has consumed
\* input in a left-recursive pass.
C9_Witness ==
    /\ OwnerReturned /\ ret.ok
    /\ ret.out # 0
    /\ ret.frame.won # 0 /\ ret.frame.last_pos.pos > ret.entry.pos + 1
    /\ Len(stack) > 0

\* Every expectation was recorded at highest_pos, and no two expectations
\* have the same nt_stack and the same element.
ExpectedAtHighest ==
    /\ \A i \in 1..Len(ex.expected) : ex.expected[i].at = ex.highest_pos.pos
    /\ \A i, j \in 1..Len(ex.expected) :
           (/\ ex.expected[i].nt_stack = ex.expected[j].nt_stack
            /\ ex.expected[i].element = ex.expected[j].element) => i = j

\* C10: across the calls of expect_element highest_pos never decreases,
\* every entry of the expected set was recorded at the current highest_pos,
\* and the set never holds two entries with the same (nt_stack, element).
C10_ExpectationMonotone ==
    /\ []ExpectedAtHighest
    /\ [][ex'.highest_pos.pos >= ex.highest_pos.pos]_vars

\* C10 witness: an element has just failed at an offset below highest_pos,
\* where the set holds expectations recorded after an earlier, lower one was
\* dropped.
C10_Witness ==
    /\ ret.active /\ ret.fn = "parse_element" /\ ~ret.ok
    /\ Elements[ret.frame.element].kind \in {"rk_char", "rk_charset"}
    /\ ret.entry.pos < ex.highest_pos.pos
    /\ tb.pos.pos = ret.entry.pos
    /\ Len(ex.expected) >= 2

\* The element carries no add_function (non-terminal, grouping) or no
\* add_char_function (char, char-set).
NoAdd(e) ==
    \/ e.kind \in {"rk_nt", "rk_grouping"} /\ e.add_function = "NULL"
    \/ e.kind \in {"rk_char", "rk_charset"} /\ e.add_char_function = "NULL"

\* parse_element has just returned success for an element without add
\* callback.
NoAddReturn ==
    /\ phase = "parsing"
    /\ ret.active /\ ret.fn = "parse_element" /\ ret.ok
    /\ NoAdd(Elements[ret.frame.element])

ParsedWithoutAdd(pc) ==
    /\ Len(stack) > 0 /\ Top.fn = "parse_element" /\ Top.pc = pc
    /\ ret.active /\ ret.ok
    /\ Elements[Top.element].add_function = "NULL"
    /\ ret'.active /\ ret'.ok

RestAfterSequence(i) ==
    /\ i < Len(stack)
    /\ \/ stack[i].fn = "parse_rule" /\ stack[i].pc \in {"loop_avoid_ret", "after_ret"}
       \/ stack[i].fn = "parse_seq" /\ stack[i].pc \in {"avoid_ret", "tail_ret"}
    /\ Elements[stack[i].element].add_seq_function = "NULL"

\* C12: when a sequence element carries no add_seq callback, the result
\* handed to the rest of the rule after the sequence is the previous result,
\* the one that preceded the sequence element, in greedy mode (parse_rule)
\* and in back-tracking mode (parse_seq) alike.
C12_RestGetsPrev ==
    \A i \in 1..Len(stack) :
        RestAfterSequence(i) =>
            stack[i + 1].prev_result =
                (IF stack[i].fn = "parse_rule" THEN stack[i].prev_result ELSE stack[i].prev)

\* The step is a call of text_buffer_next.
NextCalled == tb' = text_buffer_next(tb, input) /\ UNCHANGED <<input, saved>>

\* C13: from offset 0, line 1, column 1, tab size 4, each text_buffer_next
\* before the end of the input advances the offset by one and updates the
\* position by the byte passed: a tab moves the column to the next tab stop,
\* a newline increments the line and sets the column to 1, any other byte
\* increments the column; at the end of the input nothing changes.
C13_NextAdvances ==
    /\ [](tb.tab_size = 4 /\ tb.buffer_len = Len(input))
    /\ [][tb'.pos.pos = 0 => tb'.pos = text_pos(0, 1, 1)]_vars
    /\ [][NextCalled =>
             IF tb.pos.pos >= Len(input) THEN tb' = tb
             ELSE LET c == input[tb.pos.pos + 1]
                      col == tb.pos.cur_column
                  IN  /\ tb'.pos.pos = tb.pos.pos + 1
                      /\ tb'.info = tb.info + 1
                      /\ c = chr.tab =>
                             /\ tb'.pos.cur_line = tb.pos.cur_line
                             /\ tb'.pos.cur_column > col
                             /\ tb'.pos.cur_column <= col + 4
                             /\ (tb'.pos.cur_column - 1) % 4 = 0
                      /\ c = chr.nl =>
                             /\ tb'.pos.cur_line = tb.pos.cur_line + 1
                             /\ tb'.pos.cur_column = 1
                      /\ c \notin {chr.tab, chr.nl} =>
                             /\ tb'.pos.cur_line = tb.pos.cur_line
                             /\ tb'.pos.cur_column = col + 1]_vars

\* C13 witness: a newline, a letter and then a tab from column 2 have been
\* passed.
C13_Witness ==
    /\ input = <<chr.nl, chr.a, chr.tab>>
    /\ tb.pos = text_pos(3, 2, 5)

\* The line and column reached by scanning text[0..n) from (1, 1).
RECURSIVE Scan(_, _)
Scan(text, n) ==
    IF n = 0 THEN text_pos(0, 1, 1)
    ELSE LET p == Scan(text, n - 1)
             c == text[n]
         IN  IF c = chr.nl THEN text_pos(n, p.cur_line + 1, 1)
             ELSE IF c = chr.tab
             THEN text_pos(n, p.cur_line, ((p.cur_column - 1) \div 4) * 4 + 5)
             ELSE text_pos(n, p.cur_line, p.cur_column + 1)

\* C14: after any sequence of text_buffer_assign_string, text_buffer_next
\* and text_buffer_set_pos with positions saved from the same buffer, the
\* offset is at most the length, the cursor designates buffer[offset], line
\* and column are those of a scan of buffer[0..offset) from (1, 1), and
\* text_buffer_set_pos with an unchanged offset changes nothing.
C14_PositionConsistent ==
    /\ tb.pos.pos <= tb.buffer_len
    /\ tb.buffer_len = Len(input)
    /\ tb.info = tb.pos.pos
    /\ tb.pos = Scan(input, tb.pos.pos)
    /\ \A sp \in saved : sp.pos = tb.pos.pos => text_buffer_set_pos(tb, sp) = tb

\* C14 witness: the buffer has been set back, over a tab and a newline, to
\* a position that was saved earlier.
C14_Witness ==
    /\ input = <<chr.a, chr.tab, chr.nl>>
    /\ tb.pos = text_pos(1, 1, 2)
    /\ text_pos(3, 2, 1) \in saved
    /\ text_pos(1, 1, 2) \in saved

MaxDigits == 2

\* '-'? ( "0x" hex+ | '0' octal* | [1-9] decimal* ) 'U'? 'L'? 'L'?
IntTexts ==
    LET some(S, n) == SeqsUpTo(S, n) \ {<< >>}
        hex == {<<chr.d0, chr.x>> \o t : t \in some({chr.d0, chr.d9, chr.A, chr.f}, MaxDigits)}
        octal == {<<chr.d0>> \o t : t \in SeqsUpTo({chr.d0, chr.d7}, MaxDigits)}
        decimal == {<<c>> \o t : c \in {chr.d1, chr.d9},
                                 t \in SeqsUpTo({chr.d0, chr.d9}, MaxDigits - 1)}
        suffix == {<< >>, <<chr.U>>, <<chr.L>>, <<chr.U, chr.L>>, <<chr.L, chr.L>>,
                   <<chr.U, chr.L, chr.L>>}
    IN  {sign \o t \o s : sign \in {<< >>, <<chr.minus>>},
                          t \in hex \cup octal \cup decimal, s \in suffix}

InitInt == uninit = 0 /\ \E c \in CacheFunctions : SetupFor(c, MaxVeto, {"int"}, IntTexts)

\* The steps that the integer grammar can take: it has no non-terminal
\* elements, no avoid or back-tracking modifiers, no chain rules and no
\* left-recursive rules.
NextInt ==
    \/ parse_nt_enter \/ parse_nt_normal \/ parse_nt_normal_ret \/ parse_nt_rec
    \/ parse_rule_enter \/ parse_rule_elem_ret \/ parse_rule_elem_rest_ret
    \/ parse_rule_fail \/ parse_rule_skip_ret \/ parse_rule_seq_first_ret
    \/ parse_rule_loop \/ parse_rule_next_ret \/ parse_rule_after_loop
    \/ parse_rule_after_ret
    \/ parse_element_enter \/ parse_element_grp_ret
    \/ test_parse_grammar_release

SpecInt == InitInt /\ [][NextInt]_vars

\* The integer that a literal denotes.
RECURSIVE Magnitude(_, _)
Magnitude(digits, base) ==
    IF digits = << >> THEN 0
    ELSE LET c == digits[Len(digits)]
             digit == IF c >= chr.a THEN c - chr.a + 10
                      ELSE IF c >= chr.A THEN c - chr.A + 10 ELSE c - chr.d0
         IN  base * Magnitude(SubSeq(digits, 1, Len(digits) - 1), base) + digit

IntegerOf(text) ==
    LET negative == text[1] = chr.minus
        t == SelectSeq(text, LAMBDA c : c \notin {chr.minus, chr.U, chr.L})
        magnitude == IF Len(t) >= 2 /\ t[2] = chr.x THEN Magnitude(SubSeq(t, 3, Len(t)), 16)
                     ELSE IF t[1] = chr.d0 THEN Magnitude(t, 8)
                     ELSE Magnitude(t, 10)
    IN  IF negative THEN -magnitude ELSE magnitude

\* C16: when parse_nt("int") returns on an integer literal (optional '-',
\* then 0x and hexadecimal digits, or 0 and octal digits, or a decimal
\* number, then optional U, L, L), it has succeeded, the whole input is
\* consumed, and the int node holds sign times magnitude: also after a '-',
\* when the alternatives of the grouping resume one int_data.
C16_IntValue ==
    (phase = "parsing" /\ stack = << >> /\ ret.active) =>
        /\ ret.ok
        /\ text_buffer_end(tb)
        /\ ret.out # 0
        /\ heap[ret.out].type_name = "int"
        /\ heap[ret.out].value = IntegerOf(input)

\* C16 witness: "-07" was parsed; the '0' of the hexadecimal alternative
\* left the int_data of '-' in state 2, the octal alternative resumed it.
C16_Witness ==
    /\ phase = "parsing" /\ stack = << >> /\ ret.active /\ ret.ok
    /\ input = <<chr.minus, chr.d0, chr.d7>>
    /\ heap[ret.out].type_name = "int"
    /\ heap[ret.out].value = -7
    /\ \E p \in 1..Len(heap) : heap[p].kind = "int_data" /\ heap[p].state = 5
                               /\ heap[p].sign = -1

(***************************************************************************)
(* The character set on its own: calls of char_set_add_char,               *)
(* char_set_remove_char and char_set_add_range, the latter one iteration   *)
(* of its loop at a time.  `members` is the set of bytes that the calls    *)
(* made so far are meant to leave in the set.                              *)
(***************************************************************************)
MaxOps == 2

\* The bytes added and removed, and the bounds of the ranges.
SetBytes == {0, 7, 8, 255}
RangeBounds == {0, 2, 253, 255}

InitCS ==
    /\ Idle
    /\ uninit = 0
    /\ input = << >>
    /\ tb = text_buffer_assign_string(input)
    /\ UnitsIdle

cs_vars == <<input, tb, saved, ident_vars, parse_vars, uninit>>

char_set_add_char_call ==
    /\ char_set.pc = "idle" /\ char_set.calls < MaxOps
    /\ \E ch \in SetBytes :
           char_set' = [char_set EXCEPT !.bitvec = char_set_add_char(@, ch),
                                        !.members = @ \cup {ch}, !.calls = @ + 1]
    /\ UNCHANGED cs_vars

char_set_remove_char_call ==
    /\ char_set.pc = "idle" /\ char_set.calls < MaxOps
    /\ \E ch \in SetBytes :
           char_set' = [char_set EXCEPT !.bitvec = char_set_remove_char(@, ch),
                                        !.members = @ \ {ch}, !.calls = @ + 1]
    /\ UNCHANGED cs_vars

\* byte ch = (byte)first;
char_set_add_range_call ==
    /\ char_set.pc = "idle" /\ char_set.calls < MaxOps
    /\ \E first, last \in RangeBounds :
           char_set' = [char_set EXCEPT !.pc = "for", !.first = first, !.last = last,
                                        !.ch = first, !.members = @ \cup (first..last),
                                        !.calls = @ + 1]
    /\ UNCHANGED cs_vars

\* for (; ((byte)first) <= ch && ch <= ((byte)last); ch++) char_set_add_char(...)
char_set_add_range_for ==
    /\ char_set.pc = "for"
    /\ char_set' = IF char_set.first <= char_set.ch /\ char_set.ch <= char_set.last
                   THEN [char_set EXCEPT !.bitvec = char_set_add_char(@, char_set.ch),
                                         !.ch = (@ + 1) % 256]
                   ELSE [char_set EXCEPT !.pc = "idle"]
    /\ UNCHANGED cs_vars

NextCS ==
    \/ char_set_add_char_call \/ char_set_remove_char_call
    \/ char_set_add_range_call \/ char_set_add_range_for

SpecCS == InitCS /\ [][NextCS]_vars

\* A call of char_set_add_range runs on until it returns.
FairSpecCS == SpecCS /\ WF_vars(char_set_add_range_for)

\* Between calls the bit vector holds exactly the members.
ContainsMembers ==
    char_set.pc = "idle" =>
        \A b \in 0..255 : char_set_contains(char_set.bitvec, b) <=> b \in char_set.members

\* C17: every call of char_set_add_range(set, first, last) returns, and
\* after any sequence of add_char, remove_char and add_range calls
\* char_set_contains gives the former members plus the bytes first..last
\* that were added, less the bytes removed.
C17_AddRange ==
    /\ []ContainsMembers
    /\ (char_set.pc = "for") ~> (char_set.pc = "idle")

(***************************************************************************)
(* The string grammar (test_string_grammar): parse_nt("string") on one or  *)
(* more literals, with and without the cache, with the callbacks of the    *)
(* grammar and no others.  Between the literals stands what the            *)
(* white_space grammar above takes: its blank, or its comment.             *)
(***************************************************************************)
MaxOver == 2

\* n characters, 'a' and 'b' in turn.
Content(n) == [i \in 1..n |-> IF i % 2 = 1 THEN chr.a ELSE chr.b]

Literal(content) == <<chr.quote>> \o content \o <<chr.quote>>

StringTexts ==
    LET short == {<< >>, <<chr.a>>, <<chr.a, chr.b>>, <<chr.backslash, chr.n>>,
                  <<chr.backslash, chr.d0>>, <<chr.backslash, chr.quote>>,
                  <<chr.backslash, chr.d1, chr.d0, chr.d1>>, <<chr.d7, chr.backslash, chr.r>>}
        between == {<< >>, <<chr.a>>, <<chr.b, chr.a, chr.b>>}
    IN  {Literal(c) : c \in short}
        \cup {Literal(c) \o w \o Literal(d) : c, d \in {<<chr.a>>, <<chr.b, chr.a>>},
                                             w \in between}
        \cup {Literal(Content(n)) : n \in (ChunkSize - 1)..(ChunkSize + MaxOver)}
        \cup {Literal(Content(ChunkSize - 1)) \o <<chr.a>> \o Literal(Content(MaxOver))}

InitString ==
    /\ uninit \in {0, chr.b}
    /\ \E c \in CacheFunctions : SetupFor(c, MaxVeto, {"string"}, StringTexts)

\* The steps that the string grammar can take: it has no back-tracking
\* sequences and no left-recursive rules.
NextString ==
    \/ parse_nt_enter \/ parse_nt_normal \/ parse_nt_normal_ret \/ parse_nt_rec
    \/ parse_rule_enter \/ parse_rule_avoid_ret \/ parse_rule_elem_ret
    \/ parse_rule_elem_rest_ret \/ parse_rule_fail \/ parse_rule_skip_ret
    \/ parse_rule_seq_first_ret \/ parse_rule_loop \/ parse_rule_loop_avoid_ret
    \/ parse_rule_chain_ret \/ parse_rule_next_ret \/ parse_rule_after_loop
    \/ parse_rule_after_ret
    \/ parse_element_enter \/ parse_element_nt_ret \/ parse_element_grp_ret
    \/ test_parse_grammar_release

SpecString == InitString /\ [][NextString]_vars

\* The characters that the literals of a text denote, in source order:
\* from t[i] on, a run of plain characters at a time.
RECURSIVE Decoded(_, _, _)
Decoded(t, i, inside) ==
    IF i > Len(t) THEN << >>
    ELSE IF ~inside
    THEN IF \E k \in i..Len(t) : t[k] = chr.quote
         THEN Decoded(t, 1 + CHOOSE k \in i..Len(t) :
                                 t[k] = chr.quote /\ \A l \in i..(k - 1) : t[l] # chr.quote,
                      TRUE)
         ELSE << >>
    ELSE IF t[i] = chr.quote THEN Decoded(t, i + 1, FALSE)
    ELSE IF t[i] # chr.backslash
    THEN LET k == CHOOSE k \in i..Len(t) :
                      /\ t[k + 1] \in {chr.quote, chr.backslash}
                      /\ \A l \in i..k : t[l] \notin {chr.quote, chr.backslash}
         IN  SubSeq(t, i, k) \o Decoded(t, k + 1, TRUE)
    ELSE IF /\ i + 3 <= Len(t) /\ t[i + 1] \in {chr.d0, chr.d1}
            /\ t[i + 2] \in chr.d0..chr.d7 /\ t[i + 3] \in chr.d0..chr.d7
    THEN <<64 * (t[i + 1] - chr.d0) + 8 * (t[i + 2] - chr.d0) + t[i + 3] - chr.d0>>
         \o Decoded(t, i + 4, TRUE)
    ELSE <<CASE t[i + 1] = chr.d0 -> chr.nul [] t[i + 1] = chr.n -> chr.nl
             [] t[i + 1] = chr.r -> chr.cr [] OTHER -> t[i + 1]>>
         \o Decoded(t, i + 2, TRUE)

\* C18: when parse_nt("string") returns on one or more double-quoted
\* literals separated by white space or comments, it has succeeded, the
\* whole input is consumed and the string node holds the decoded
\* characters of all literals in source order, whatever their number.
C18_StringValue ==
    (phase = "parsing" /\ stack = << >> /\ ret.active) =>
        /\ ret.ok
        /\ text_buffer_end(tb)
        /\ ret.out # 0
        /\ heap[ret.out].type_name = "string"
        /\ heap[ret.out].val = Decoded(input, 1, FALSE)

\* parse_nt is about to take the next left-recursive rule of a pass.
AtRecRule == stack # << >> /\ Top.fn = "parse_nt" /\ Top.pc = "rec" /\ Top.rule # 0

\* C19: in a pass over the left-recursive rules the rule is tried with the
\* start result that its rec_start_function makes of the current result,
\* and with the empty result when it has no rec_start_function; when the
\* function returns false the rule is not tried and parse_nt goes on with
\* the next left-recursive rule of the pass.
C19_RecStart ==
    [][AtRecRule =>
          LET F == Top
              rule == Rules[F.rule]
              st == CallRecStart(rule.rec_start_function, "ok", heap, F.result, 0)
              called == stack'[Len(stack')]
          IN  \/ /\ Len(stack') = Len(stack) + 1
                 /\ called.fn = "parse_rule" /\ called.pc = "enter"
                 /\ called.element = rule.elements /\ called.rule = F.rule
                 /\ IF rule.rec_start_function = "NULL"
                    THEN called.prev_result = 0 /\ heap' = heap
                    ELSE called.prev_result = st.result /\ heap' = st.h
              \/ /\ Len(stack') = Len(stack)
                 /\ rule.rec_start_function # "NULL"
                 /\ vetoes' = vetoes + 1
                 /\ called.fn = "parse_nt" /\ called.pc = "rec"
                 /\ called.rule = rule.next
                 /\ called.result = F.result
                 /\ called.pass = Append(F.pass, F.rule)
                 /\ ~ret'.active]_vars

\* C19 witness: the second left-recursive rule of a pass is tried, after a
\* callback has returned false, and its start result holds the current
\* result as its child.
C19_Witness ==
    \E i \in 1..(Len(stack) - 1) :
        /\ stack[i].fn = "parse_nt" /\ stack[i].pc = "rec_ret"
        /\ Len(stack[i].pass) = 2 /\ vetoes = 1
        /\ Rules[stack[i].rule].rec_start_function # "NULL"
        /\ stack[i + 1].fn = "parse_rule" /\ stack[i + 1].pc = "enter"
        /\ stack[i + 1].prev_result # 0
        /\ heap[stack[i + 1].prev_result].child = stack[i].result
        /\ stack[i].result # 0

\* What a plain element (a character, a character set or the end of the
\* input) consumes at offset pos: the offset after it, or -1.
MatchOne(e, pos) ==
    LET E == Elements[e]
    IN  CASE E.kind = "rk_char" ->
                 IF pos < Len(input) /\ input[pos + 1] = E.ch THEN pos + 1 ELSE -1
          [] E.kind = "rk_charset" ->
                 IF pos < Len(input) /\ input[pos + 1] \in E.char_set THEN pos + 1 ELSE -1
          [] E.kind = "rk_end" -> IF pos >= Len(input) THEN pos ELSE -1

\* The same for a list of plain elements, from element e on.
RECURSIVE MatchAll(_, _)
MatchAll(e, pos) ==
    IF e = 0 \/ pos = -1 THEN pos ELSE MatchAll(Elements[e].next, MatchOne(e, pos))

\* The offset after k items of the sequence element e that start at pos,
\* with the chain rule between consecutive items, or -1.
RECURSIVE ItemsEnd(_, _, _)
ItemsEnd(e, pos, k) ==
    IF k = 1 THEN MatchOne(e, pos)
    ELSE LET p == ItemsEnd(e, pos, k - 1)
             c == MatchAll(Elements[e].chain_rule, p)
         IN  IF c = -1 THEN -1 ELSE MatchOne(e, c)

\* The offset after k items and the rest of the rule, or -1.
RestEnd(e, pos, k) == MatchAll(Elements[e].next, ItemsEnd(e, pos, k))

\* The numbers of items after which the rest of the rule parses.
Counts(e, pos) == {k \in 1..(Len(input) + 1) : RestEnd(e, pos, k) # -1}

ElemNTs == {"gr", "grc", "gro", "avo", "opt", "white_space"}

InitElems ==
    /\ uninit = 0
    /\ \/ \E c \in CacheFunctions : SetupFor(c, 0, ElemNTs, Inputs)
       \/ SetupFor("solutions_find", 0, {"ilr"}, Inputs)

NextElems ==
    \/ parse_nt_enter \/ parse_nt_normal \/ parse_nt_normal_ret \/ parse_nt_rec
    \/ parse_rule_enter \/ parse_rule_avoid_ret \/ parse_rule_elem_ret
    \/ parse_rule_elem_rest_ret \/ parse_rule_fail \/ parse_rule_skip_ret
    \/ parse_rule_seq_first_ret \/ parse_rule_loop \/ parse_rule_loop_avoid_ret
    \/ parse_rule_chain_ret \/ parse_rule_next_ret
    \/ parse_rule_after_loop \/ parse_rule_after_ret
    \/ parse_element_enter \/ parse_element_nt_ret \/ parse_element_grp_ret
    \/ test_parse_grammar_release

SpecElems == InitElems /\ [][NextElems]_vars

\* The parser is one thread that runs on until test_parse_grammar is done.
FairSpecElems == SpecElems /\ WF_vars(NextElems)

\* A list of elements that are characters, character sets or the end of
\* the input, without modifiers.
RECURSIVE PlainList(_)
PlainList(e) ==
    \/ e = 0
    \/ /\ Elements[e].kind \in {"rk_char", "rk_charset", "rk_end"}
       /\ ~Elements[e].optional /\ ~Elements[e].sequence
       /\ PlainList(Elements[e].next)

\* The number of items of the sequence element e that parse in a row from
\* pos on, with the chain rule between them.
GreedyCount(e, pos) ==
    LET K == {k \in 1..(Len(input) + 1) : ItemsEnd(e, pos, k) # -1}
    IN  IF K = {} THEN 0 ELSE CHOOSE n \in K : \A o \in K : n >= o

\* C21: parse_rule at a sequence element without back_tracking and without
\* avoid (items, chain rule and rest of the rule plain, no callback
\* returning false) takes as many items as parse in a row, with the chain
\* rule between them, and then the rest of the rule from the end of the
\* last item; it succeeds iff the rest parses there, or, the element being
\* optional, at the entry position with the element skipped; no shorter
\* run of items is tried, and on failure the position is that at entry.
C21_Greedy ==
    (/\ ret.active /\ ret.fn = "parse_rule" /\ ret.frame.element # 0
     /\ vetoes = 0
     /\ Elements[ret.frame.element].sequence
     /\ ~Elements[ret.frame.element].back_tracking
     /\ ~Elements[ret.frame.element].avoid
     /\ Elements[ret.frame.element].kind \in {"rk_char", "rk_charset"}
     /\ PlainList(Elements[ret.frame.element].chain_rule)
     /\ PlainList(Elements[ret.frame.element].next)) =>
        LET e == ret.frame.element
            p0 == ret.entry.pos
            n == GreedyCount(e, p0)
            after == IF n = 0 THEN -1 ELSE RestEnd(e, p0, n)
            skip == IF Elements[e].optional THEN MatchAll(Elements[e].next, p0) ELSE -1
        IN  /\ ret.ok <=> (after # -1 \/ skip # -1)
            /\ ret.ok => tb.pos.pos = IF after # -1 THEN after ELSE skip
            /\ ~ret.ok => tb.pos = ret.entry

\* C21 witness: on "ab" the sequence [ab] SEQ has taken both characters; the
\* rest of the rule, 'b', parses after one item but not after two, and
\* parse_rule has failed at the entry position.
C21_Witness ==
    /\ ret.active /\ ret.fn = "parse_rule" /\ ~ret.ok
    /\ ret.frame.element # 0
    /\ Elements[ret.frame.element].sequence
    /\ ~Elements[ret.frame.element].back_tracking
    /\ ~Elements[ret.frame.element].optional
    /\ input = <<chr.a, chr.b>>
    /\ GreedyCount(ret.frame.element, 0) = 2
    /\ RestEnd(ret.frame.element, 0, 1) = 2
    /\ ret.pc = "fail"
    /\ tb.pos.pos = 0

\* A call of parse_rule whose first element is optional and not to be
\* avoided.
TriesFirst(F) ==
    /\ F.fn = "parse_rule"
    /\ F.element # 0
    /\ Elements[F.element].optional
    /\ ~Elements[F.element].avoid

\* Where parse_rule stands when the rest of the rule returns to it after
\* the element has been parsed.
AfterElementPcs == {"elem_rest_ret", "bt_ret", "after_ret"}

\* The element is tried before anything else; the skip attempt comes only
\* after that, and it is a call of parse_rule for the rest of the rule at
\* the position where the rule was entered.  The call returns success from
\* one of the two attempts, and failure at the entry position.
ElementBeforeSkip ==
    /\ \A i \in 1..Len(stack) :
           TriesFirst(stack[i]) =>
               /\ stack[i].pc # "enter" => stack[i].elem_tried
               /\ stack[i].skipped # "no" =>
                      stack[i].elem_tried /\ stack[i].pc = "skip_ret"
               /\ (stack[i].pc = "skip_ret" /\ i < Len(stack)) =>
                      /\ stack[i + 1].fn = "parse_rule"
                      /\ stack[i + 1].element = Elements[stack[i].element].next
                      /\ stack[i + 1].entry = stack[i].entry
    /\ (ret.active /\ TriesFirst(ret.frame)) =>
           /\ ret.ok => ret.pc \in AfterElementPcs \cup {"skip_ret"}
           /\ ret.pc \in AfterElementPcs => ret.ok /\ ret.frame.skipped = "no"
           /\ ret.pc = "skip_ret" => ret.frame.skipped = "tried"
           /\ ~ret.ok => ret.pc \in {"fail", "skip_ret"} /\ tb.pos = ret.entry

\* When the rest of the rule has succeeded after the element, the next
\* step of parse_rule is its successful return; when the attempt with the
\* element has failed, the next step goes back to the entry position and
\* calls parse_rule for the rest of the rule with the element skipped (or
\* returns failure because the skip callback returned false); and the
\* skip attempt's outcome is the outcome of parse_rule.
SkipAfterElement ==
    (Len(stack) > 0 /\ TriesFirst(Top)) =>
        /\ (Top.pc \in AfterElementPcs /\ ret.active /\ ret.ok) =>
               /\ stack' = SubSeq(stack, 1, Len(stack) - 1)
               /\ ret'.active /\ ret'.ok /\ ret'.fn = "parse_rule"
               /\ ret'.out = ret.out
               /\ tb' = tb
        /\ (Top.pc \in AfterElementPcs /\ ret.active /\ ~ret.ok) =>
               /\ Len(stack') = Len(stack)
               /\ stack'[Len(stack')].pc = "fail"
        /\ Top.pc = "fail" =>
               /\ tb'.pos = Top.entry
               /\ \/ /\ Len(stack') = Len(stack) + 1
                     /\ stack'[Len(stack)].pc = "skip_ret"
                     /\ stack'[Len(stack')].fn = "parse_rule"
                     /\ stack'[Len(stack')].pc = "enter"
                     /\ stack'[Len(stack')].element = Elements[Top.element].next
                  \/ /\ stack' = SubSeq(stack, 1, Len(stack) - 1)
                     /\ ret'.active /\ ~ret'.ok
                     /\ vetoes' = vetoes + 1
        /\ (Top.pc = "skip_ret" /\ ret.active) =>
               /\ stack' = SubSeq(stack, 1, Len(stack) - 1)
               /\ ret'.active /\ ret'.fn = "parse_rule"
               /\ ret'.ok = ret.ok
               /\ ret.ok => ret'.out = ret.out /\ tb' = tb

\* C22: if the first element of a (remaining) rule is optional and has no
\* avoid, parse_rule first tries the element followed by the rest of the
\* rule; only when that fails does it go back to the entry position and try
\* the rest of the rule with the element skipped; it succeeds iff one of
\* the two attempts succeeds, and a success of the first is returned
\* without the second being made.
C22_ElementFirst == []ElementBeforeSkip /\ [][SkipAfterElement]_vars

\* C22 witness: the element was parsed at the entry position, the rest of
\* the rule failed after it, and parse_rule returns success from the skip
\* attempt, having consumed nothing of the element.
C22_Witness ==
    /\ ret.active /\ TriesFirst(ret.frame) /\ ret.pc = "skip_ret" /\ ret.ok
    /\ Elements[ret.frame.element].kind = "rk_char"
    /\ CharAt(input, ret.entry.pos) = Elements[ret.frame.element].ch
    /\ tb.pos = ret.entry

\* Frame i of the stack is a call of parse_nt that has passed the cache
\* and is trying its rules.
InFlight(i) == stack[i].fn = "parse_nt" /\ stack[i].pc # "enter"

\* With a cache, the cache item of every call of parse_nt in flight reads
\* s_fail.
InFlightReadsFail ==
    parser.cache_hit_function # "NULL" =>
        \A i \in 1..Len(stack) :
            InFlight(i) =>
                /\ stack[i].cache_item = [pos |-> stack[i].entry.pos,
                                          nt |-> stack[i].non_term]
                /\ CacheItem(cache, stack[i].cache_item).success = "s_fail"

\* parse_nt is entered for a non-terminal and an offset for which a call
\* is in flight.
NestedEntry ==
    /\ Len(stack) > 0 /\ Top.fn = "parse_nt" /\ Top.pc = "enter"
    /\ parser.cache_hit_function # "NULL"
    /\ \E i \in 1..(Len(stack) - 1) :
           /\ InFlight(i)
           /\ stack[i].non_term = Top.non_term
           /\ stack[i].entry.pos = tb.pos.pos

\* The nested call returns failure in its first step: no rule is tried,
\* nothing is pushed, the cursor stays.
NestedFails ==
    NestedEntry =>
        /\ stack' = SubSeq(stack, 1, Len(stack) - 1)
        /\ ret'.active /\ ~ret'.ok /\ ret'.fn = "parse_nt"
        /\ ret'.frame.tried = << >>
        /\ tb' = tb
        /\ ntmem' = ntmem /\ parser' = parser /\ heap' = heap

\* C23: with a cache, the cache item of a call of parse_nt in flight reads
\* fail; a nested call of parse_nt for the same non-terminal at the same
\* offset returns failure at once, without trying a rule and without moving
\* the cursor; and the parse of a grammar with indirect left recursion
\* comes to its end.
C23_IndirectLeftRecursion ==
    []InFlightReadsFail /\ [][NestedFails]_vars /\ <>(phase = "released")

\* C23 witness: ilr has asked for ilb at offset 0 and ilb for ilr at offset
\* 0; this nested call has just failed on the cache item of the call in
\* flight, with no rule tried, and the cursor is where it was.
C23_Witness ==
    /\ ret.active /\ ret.fn = "parse_nt" /\ ret.nt = "ilr" /\ ~ret.ok
    /\ ret.pc = "enter" /\ ret.frame.tried = << >>
    /\ tb.pos = ret.entry
    /\ \E i \in 1..Len(stack) :
           /\ InFlight(i) /\ stack[i].non_term = "ilr"
           /\ stack[i].entry = ret.entry
           /\ CacheItem(cache, stack[i].cache_item).success = "s_fail"

\* parse_nt has returned success to parse_element for a non-terminal
\* element that has a condition.
AtCondition ==
    /\ Len(stack) > 0 /\ Top.fn = "parse_element" /\ Top.pc = "nt_ret"
    /\ ret.active /\ ret.ok
    /\ Elements[Top.element].condition # "NULL"

\* C24: after parse_nt has succeeded for a non-terminal element with a
\* condition, the condition is evaluated on the result of the non-terminal;
\* when it is false parse_element fails in that step, the add function has
\* not been called (no payload is made, the result of the non-terminal is
\* released) and the position is the one at which the element started;
\* parse_element succeeds only when the condition is true, and then the
\* add function has been given the result of the non-terminal.
C24_Condition ==
    [][AtCondition =>
          LET e == Elements[Top.element]
              holds == CallCondition(e.condition, "ok", heap, ret.out,
                                     e.condition_argument)
              add == CallAdd(e.add_function, "ok", heap, Top.prev_result, ret.out,
                             Top.result)
          IN  /\ stack' = SubSeq(stack, 1, Len(stack) - 1)
              /\ ret'.active /\ ret'.fn = "parse_element"
              /\ ~holds =>
                     /\ ~ret'.ok
                     /\ heap' = result_release(heap, ret.out)
                     /\ tb'.pos = Top.entry /\ tb'.info = Top.entry.pos
              /\ ret'.ok => holds /\ tb' = tb
              /\ (holds /\ vetoes' = vetoes) =>
                     /\ ret'.ok
                     /\ e.add_function # "NULL" =>
                            /\ ret'.out = add.result
                            /\ heap' = result_release(add.h, ret.out)
              /\ ~ret'.ok => tb'.pos = Top.entry]_vars

\* C24 witness: the identifier that prim has parsed is a keyword;
\* parse_element has failed on the condition with no callback returning
\* false, and the position is back at the start of the element.
C24_Witness ==
    /\ ret.active /\ ret.fn = "parse_element" /\ ~ret.ok /\ ret.pc = "nt_ret"
    /\ Elements[ret.frame.element].condition = "not_a_keyword"
    /\ vetoes = 0
    /\ ret.before.pos = ret.entry.pos + 2
    /\ tb.pos = ret.entry
    /\ \E p \in 1..Len(heap) : heap[p].type_name = "ident" /\ heap[p].is_keyword

\* parse_rule is about to skip its optional first element: at its entry
\* when the element has avoid, after the attempt with the element
\* otherwise.
AtSkip ==
    /\ Len(stack) > 0 /\ Top.fn = "parse_rule" /\ Top.element # 0
    /\ Elements[Top.element].optional
    /\ Top.pc = IF Elements[Top.element].avoid THEN "enter" ELSE "fail"

\* C25: when an optional element is skipped, with or without avoid, the
\* rest of the rule is parsed from the entry position with the result that
\* add_skip_function makes of prev_result, or, the element having none,
\* that add_function makes of prev_result and an empty result, or, the
\* element having neither, with prev_result itself; when the function
\* returns false parse_rule returns failure in that step, at the entry
\* position, and the rest of the rule is not parsed.
C25_SkipResult ==
    [][AtSkip =>
          LET e == Elements[Top.element]
              prev == Top.prev_result
              called == stack'[Len(stack')]
          IN  /\ tb'.pos = Top.entry
              /\ \/ /\ Len(stack') = Len(stack) + 1
                    /\ called.fn = "parse_rule" /\ called.pc = "enter"
                    /\ called.element = e.next /\ called.rule = Top.rule
                    /\ vetoes' = vetoes
                    /\ IF e.add_skip_function # "NULL"
                       THEN LET r == CallAddSkip(e.add_skip_function, "ok", heap, prev, 0)
                            IN  called.prev_result = r.result /\ heap' = r.h
                       ELSE IF e.add_function # "NULL"
                       THEN LET r == CallAdd(e.add_function, "ok", heap, prev, 0, 0)
                            IN  /\ called.prev_result = r.result /\ heap' = r.h
                                /\ e.add_function = "add_child" =>
                                       /\ r.result = Len(heap) + 1
                                       /\ heap'[r.result].prev = prev
                                       /\ heap'[r.result].child = 0
                       ELSE /\ called.prev_result = prev
                            /\ Len(heap') = Len(heap)
                            /\ ValueOf(heap', prev) = ValueOf(heap, prev)
                 \/ /\ SkipFunction(e) # "NULL"
                    /\ vetoes' = vetoes + 1
                    /\ stack' = SubSeq(stack, 1, Len(stack) - 1)
                    /\ ret'.active /\ ~ret'.ok /\ ret'.fn = "parse_rule"]_vars

\* C25 witness: an element with avoid, an add_function and no
\* add_skip_function has been skipped; the rest of the rule has been called
\* with what add_child has made of prev_result and an empty result.
C25_Witness ==
    /\ Len(stack) > 1 /\ Top.fn = "parse_rule" /\ Top.pc = "enter"
    /\ LET F == stack[Len(stack) - 1]
       IN  /\ F.fn = "parse_rule" /\ F.pc = "avoid_ret"
           /\ Elements[F.element].add_skip_function = "NULL"
           /\ Elements[F.element].add_function = "add_child"
           /\ Top.element = Elements[F.element].next
           /\ Top.prev_result # 0 /\ Top.prev_result # F.prev_result
           /\ heap[Top.prev_result].prev = F.prev_result
           /\ heap[Top.prev_result].child = 0
           /\ tb.pos = F.entry

(***************************************************************************)
(* A user defined terminal: parse_nt on the grammar term, whose terminal   *)
(* function may return any pointer into the text, on texts with tabs and   *)
(* newlines, with and without the cache.                                   *)
(***************************************************************************)
InitTerm == uninit = 0 /\ \E c \in CacheFunctions : SetupFor(c, 0, {"term"}, Texts)

NextTerm ==
    \/ parse_nt_enter \/ parse_nt_normal \/ parse_nt_normal_ret \/ parse_nt_rec
    \/ parse_rule_enter \/ parse_rule_elem_ret \/ parse_rule_elem_rest_ret
    \/ parse_rule_fail
    \/ parse_element_enter \/ parse_element_term
    \/ test_parse_grammar_release

SpecTerm == InitTerm /\ [][NextTerm]_vars

\* The parser is one thread that runs on until test_parse_grammar is done.
FairSpecTerm == SpecTerm /\ WF_vars(NextTerm)

\* parse_element has returned from an element of kind rk_term.
TerminalReturn ==
    /\ ret.active /\ ret.fn = "parse_element"
    /\ Elements[ret.frame.element].kind = "rk_term"

\* A failed user terminal leaves the position where it was and an
\* expectation for the element at the highest position; a successful one
\* ends at the position the terminal function returned, with the line and
\* column of a scan up to there.
TerminalOutcome ==
    TerminalReturn =>
        /\ ret.pc = "enter" =>
               /\ ~ret.ok
               /\ tb.pos = ret.entry
               /\ ex.highest_pos.pos >= tb.pos.pos
               /\ ex.highest_pos.pos = tb.pos.pos =>
                      \E i \in 1..Len(ex.expected) :
                          ex.expected[i].element = ret.frame.element
        /\ ret.pc = "term" =>
               /\ ret.ok
               /\ ret.frame.next_pos > ret.entry.pos
               /\ tb.pos = Scan(input, ret.frame.next_pos)
               /\ tb.info = ret.frame.next_pos

\* The terminal function has returned a pointer beyond the cursor.
TerminalAccepted == Running("parse_element", "term")

\* C26: parse_element for a user terminal fails, with an expectation and
\* the position unchanged, when the terminal function returns a pointer
\* that is not beyond the cursor; otherwise it comes to return success
\* with the offset at the returned pointer and line and column as
\* text_buffer_next counts them.
C26_UserTerminal ==
    []TerminalOutcome /\ (TerminalAccepted ~> (TerminalReturn /\ ret.ok))

\* The same for a terminal function that returns pointers into the text or
\* to its terminating 0 only.
C26_WithinText ==
    []TerminalOutcome
    /\ ((TerminalAccepted /\ Top.next_pos <= Len(input)) ~> (TerminalReturn /\ ret.ok))

(***************************************************************************)
(* The brute force cache on its own: a caller that asks solutions_find for *)
(* any offset, also beyond the length of the text, and any of two names;   *)
(* and the writes that parse_nt makes through the pointers it has got.     *)
(***************************************************************************)
MaxCacheLen == 1

CacheNames == {"ident", "white_space"}

InitSol ==
    /\ all_nt = Grammar
    /\ uninit = 0
    /\ \E n \in 0..MaxCacheLen : input = Content(n)
    /\ tb = text_buffer_assign_string(input)
    /\ cache = solutions_init(tb)
    /\ startNT = "NULL"
    /\ parser = [nt_stack |-> 0, cache_hit_function |-> "solutions_find"]
    /\ heap = << >>
    /\ ntmem = [nodes |-> << >>, allocated |-> 0]
    /\ ex = [highest_pos |-> NoPos, expected |-> << >>]
    /\ stack = << >>
    /\ ret = NoRet
    /\ vetoes = 0
    /\ phase = "idle"
    /\ fresh = << >>
    /\ UnitsIdle

sol_vars == <<input, startNT, tb, parser, heap, ntmem, ex, stack, vetoes, phase, fresh,
              units>>

\* cache_item = parser->cache_hit_function(parser->cache, pos, nt): the
\* call and what it returned are kept in ret.frame.
solutions_find_call ==
    /\ \E pos \in 0..(cache.len + 1), nt \in CacheNames :
           LET found == solutions_find(cache, pos, nt)
           IN  /\ cache' = found.cache
               /\ ret' = [NoRet EXCEPT !.active = TRUE, !.fn = "solutions_find",
                                       !.frame = [fn |-> "solutions_find", pos |-> pos,
                                                  nt |-> nt, cache_item |-> found.item]]
    /\ UNCHANGED sol_vars

\* The writes of parse_nt to a cache item it holds: s_fail when the item
\* reads s_unknown, later s_success with the position reached.
cache_item_write ==
    /\ \E p \in 0..cache.len, nt \in CacheNames :
           /\ \E i \in 1..Len(cache.sols[p]) : cache.sols[p][i].nt = nt
           /\ LET key == [pos |-> p, nt |-> nt]
                  item == CacheItem(cache, key)
              IN  \/ /\ item.success = "s_unknown"
                     /\ cache' = SetCacheItem(cache, key, [item EXCEPT !.success = "s_fail"])
                  \/ /\ item.success = "s_fail"
                     /\ cache' = SetCacheItem(cache, key,
                                     [success |-> "s_success", result |-> 0,
                                      next_pos |-> text_pos(cache.len, 1, cache.len + 1)])
    /\ ret' = NoRet
    /\ UNCHANGED sol_vars

NextSol == solutions_find_call \/ cache_item_write

SpecSol == InitSol /\ [][NextSol]_vars

\* The cache items of cache c, by (bucket, name).
Items(c) ==
    UNION {{[pos |-> p, nt |-> c.sols[p][i].nt] : i \in 1..Len(c.sols[p])} : p \in 0..c.len}

\* A bucket holds one solution per name, and the item that solutions_find
\* has returned is the one of the name asked for, in the bucket of the
\* offset asked for, or of the length for an offset beyond it.
OneItemPerKey ==
    /\ \A p \in 0..cache.len : \A i, j \in 1..Len(cache.sols[p]) :
           cache.sols[p][i].nt = cache.sols[p][j].nt => i = j
    /\ (ret.active /\ ret.fn = "solutions_find") =>
           /\ ret.frame.cache_item.nt = ret.frame.nt
           /\ ret.frame.cache_item.pos =
                  IF ret.frame.pos > cache.len THEN cache.len ELSE ret.frame.pos
           /\ ret.frame.cache_item \in Items(cache)

\* An item stays in the cache, a call of solutions_find leaves every item
\* as it is and makes at most one new item, which reads s_unknown, and no
\* step makes an item read s_unknown again.
ItemsStable ==
    /\ \A key \in Items(cache) :
           /\ key \in Items(cache')
           /\ ret'.fn = "solutions_find" => CacheItem(cache', key) = CacheItem(cache, key)
           /\ CacheItem(cache, key).success # "s_unknown" =>
                  CacheItem(cache', key).success # "s_unknown"
    /\ \A key \in Items(cache') \ Items(cache) :
           /\ CacheItem(cache', key) = [success |-> "s_unknown", result |-> 0,
                                        next_pos |-> NoPos]
           /\ Items(cache') = Items(cache) \cup {key}

\* C27: over any sequence of calls of solutions_find on one cache, and of
\* writes of parse_nt to the items, a call for the same offset and name
\* returns the same item and calls for different ones different items; an
\* item reads s_unknown when it is made, solutions_find never changes an
\* item, and no item reads s_unknown again once it has been written; an
\* offset beyond the length of the text is served from the bucket of the
\* length.
C27_CacheItems == []OneItemPerKey /\ [][ItemsStable]_vars

\* C27 witness: a call for an offset beyond the length has returned the
\* item of the bucket of the length that parse_nt had written before, and
\* the item of the other name in that bucket reads s_unknown.
C27_Witness ==
    /\ ret.active /\ ret.fn = "solutions_find"
    /\ ret.frame.pos = cache.len + 1
    /\ ret.frame.cache_item = [pos |-> cache.len, nt |-> ret.frame.nt]
    /\ CacheItem(cache, ret.frame.cache_item).success = "s_success"
    /\ Len(cache.sols[cache.len]) = 2
    /\ \E nt \in CacheNames :
           CacheItem(cache, [pos |-> cache.len, nt |-> nt]).success = "s_unknown"

(***************************************************************************)
(* The end of the input: a grammar with the end element after characters   *)
(* and character sets, among them the byte 0 that ends the text.           *)
(***************************************************************************)
InitEnd == uninit = 0 /\ \E c \in CacheFunctions : SetupFor(c, 0, {"eoi"}, Inputs)

NextEnd ==
    \/ parse_nt_enter \/ parse_nt_normal \/ parse_nt_normal_ret \/ parse_nt_rec
    \/ parse_rule_enter \/ parse_rule_elem_ret \/ parse_rule_elem_rest_ret
    \/ parse_rule_fail
    \/ parse_element_enter
    \/ test_parse_grammar_release

SpecEnd == InitEnd /\ [][NextEnd]_vars

\* parse_element has returned from an element of one of the kinds.
ElementReturn(kinds) ==
    /\ ret.active /\ ret.fn = "parse_element"
    /\ Elements[ret.frame.element].kind \in kinds

\* The end element succeeds iff the cursor is at the end of the input, and
\* then leaves the position and passes the previous result through.
EndAtEnd ==
    ElementReturn({"rk_end"}) =>
        /\ ret.ok <=> ret.entry.pos = Len(input)
        /\ ret.ok => /\ tb.pos = ret.entry
                     /\ ret.out = ret.frame.prev_result

\* A character or character set that has succeeded was not tried at the
\* end of the input and has moved the offset by one.
CharBeforeEnd ==
    (ElementReturn({"rk_char", "rk_charset"}) /\ ret.ok) =>
        /\ ret.entry.pos < Len(input)
        /\ tb.pos.pos = ret.entry.pos + 1

\* C28: at the end of the input the end element succeeds, leaves the
\* position and passes the previous result through, and no character or
\* character set succeeds; before the end of the input the end element
\* fails, and every character or character set that succeeds moves the
\* offset by exactly one.
C28_EndOfInput == EndAtEnd /\ CharBeforeEnd

\* The byte 0 aside, a character or character set that has succeeded was
\* not tried at the end of the input and has moved the offset by one.
C28_NoNul ==
    (/\ ElementReturn({"rk_char", "rk_charset"}) /\ ret.ok
     /\ Elements[ret.frame.element].ch # chr.nul
     /\ chr.nul \notin Elements[ret.frame.element].char_set) =>
        /\ ret.entry.pos < Len(input)
        /\ tb.pos.pos = ret.entry.pos + 1

\* The frames from p on along the parent pointers (p = 0: none).
RECURSIVE NtChain(_, _)
NtChain(nm, p) == IF p = 0 THEN {} ELSE {p} \cup NtChain(nm, nm.nodes[p].parent)

\* The frames on the free list nt_stack_allocated.
FreeFrames == NtChain(ntmem, ntmem.allocated)

\* The frames that the recorded expectations refer to.
ExpectedFrames == {ex.expected[i].nt_stack : i \in 1..Len(ex.expected)}

\* When a parse function returns, parser->nt_stack is what it was at the
\* call; inside parse_nt, after the push, it is a frame whose parent is
\* what it was at the call.
NtStackBalanced ==
    /\ ret.active /\ ret.fn \in {"parse_nt", "parse_rule", "parse_seq", "parse_element"} =>
           parser.nt_stack = ret.frame.nt_stack
    /\ \A i \in 1..Len(stack) :
           stack[i].fn = "parse_nt" /\ stack[i].pc # "enter" =>
               LET above == {j \in (i + 1)..Len(stack) : stack[j].fn = "parse_nt"}
                   mine == IF above = {} THEN parser.nt_stack
                           ELSE stack[CHOOSE j \in above : \A k \in above : j <= k].nt_stack
               IN  /\ mine # 0
                   /\ ntmem.nodes[mine].parent = stack[i].nt_stack
                   /\ ntmem.nodes[mine].name = stack[i].non_term

\* A frame that a recorded expectation refers to, and every frame that is
\* reached from it along the parent pointers, holds a reference and is not
\* on the free list.
ExpectedFramesHeld ==
    \A p \in ExpectedFrames :
        /\ p # 0
        /\ \A q \in NtChain(ntmem, p) :
               /\ ntmem.nodes[q].ref_count >= 1
               /\ q \notin FreeFrames

\* A frame that a recorded expectation refers to before and after a step
\* is not given to another push by the step.
ExpectedFramesKept ==
    \A p \in ExpectedFrames :
        (\E i \in 1..Len(ex'.expected) : ex'.expected[i].nt_stack = p) =>
            /\ ntmem'.nodes[p].name = ntmem.nodes[p].name
            /\ ntmem'.nodes[p].pos = ntmem.nodes[p].pos
            /\ ntmem'.nodes[p].parent = ntmem.nodes[p].parent

\* C29: when a call of parse_nt returns, by success, by failure or by a
\* cache hit, parser->nt_stack is the frame it was at the call, and a
\* frame that a recorded expectation refers to is never on the free list
\* and never reused for another push while it is referred to.
C29_NtStack ==
    /\ []NtStackBalanced
    /\ []ExpectedFramesHeld
    /\ [][ExpectedFramesKept]_vars

\* C29 witness: parse_nt has returned to a caller inside another
\* non-terminal; a recorded expectation refers to a frame that has been
\* popped, and another popped frame is on the free list.
C29_Witness ==
    /\ ret.active /\ ret.fn = "parse_nt" /\ ret.pc # "enter"
    /\ parser.nt_stack # 0
    /\ parser.nt_stack = ret.frame.nt_stack
    /\ ntmem.allocated # 0
    /\ \E p \in ExpectedFrames : p \notin NtChain(ntmem, parser.nt_stack)

\* The previous-child nodes that add_child and rec_add_child have made.
PrevChildNodes == {p \in DOMAIN heap : heap[p].kind = "prev_child"}

\* No count of a previous-child node is below zero, a freed node has
\* released its child and is not decremented again, and once the results
\* of a parse without failing callbacks are released every node has been
\* freed.
PrevChildFreed ==
    \A p \in PrevChildNodes :
        /\ heap[p].cnt >= 0
        /\ heap[p].freed => heap[p].child = 0 /\ heap[p].cnt = 0
        /\ (phase = "released" /\ vetoes = 0) => heap[p].freed

\* The step that frees a previous-child node decrements its predecessor.
PrevChildGivesBack ==
    \A p \in PrevChildNodes :
        (~heap[p].freed /\ heap'[p].freed /\ heap[p].prev # 0) =>
            heap'[heap[p].prev].decs > heap[heap[p].prev].decs

\* C30: when the last reference to a previous-child node built by add_child
\* is dropped, release_prev_child releases the child result of the node and
\* gives back the reference that add_child took on the predecessor; after
\* all results of a parse are released every previous-child node has been
\* freed, once, and no count has gone below zero.
C30_PrevChildRelease == []PrevChildFreed /\ [][PrevChildGivesBack]_vars

====
